---- MODULE Spec2Model ----
(***************************************************************************)
(* Model of the Data Alchemist page (src/app/page.tsx): the normalisation  *)
(* and validation pipeline, the GeminiAI client's fallbacks, and the React *)
(* component's handlers with the closures their timers and promises keep.  *)
(*                                                                         *)
(* JavaScript strings are TLA+ strings (Len, \o and SubSeq act on them).   *)
(* A dynamically typed JavaScript value is a record [t, n, s, a]: t is the *)
(* type tag, n the integer of a number, s the text of a string (or the     *)
(* JSON text of an object), a the elements of an array of numbers, l the   *)
(* elements of an array of strings.                                        *)
(***************************************************************************)
EXTENDS Integers, Sequences, FiniteSets, TLC

VARIABLES
    activeTab,          \* useState('upload')
    dataTab,            \* useState('clients')
    clients,            \* useState<Client[]>([])
    workers,            \* useState<Worker[]>([])
    tasks,              \* useState<Task[]>([])
    errors,             \* useState<ValidationError[]>([])
    aiCorrections,      \* useState<any[]>([])
    isProcessing,       \* useState(false)
    isGeneratingFixes,  \* useState(false)
    apiKey,             \* GeminiAI.apiKey is set (NEXT_PUBLIC_GEMINI_API_KEY)
    inflight,           \* promises not yet settled, each with the closure of its caller
    timers,             \* setTimeout callbacks not yet run, in scheduling order
    nops,               \* number of user operations performed so far
    last,               \* the operation performed by the last step
    args,               \* arguments of the function under check (function specifications)
    ret,                \* its result
    rules,              \* useState<Rule[]>([])
    ruleDescription,    \* useState('')
    priorityWeights,    \* useState({priorityLevel: 30, ...})
    now,                \* the last value of Date.now()
    searchQuery,        \* useState('')
    searchResults,      \* useState<any[]>([])
    searchSource,       \* useState<'ai' | 'local' | null>(null)
    isSearching,        \* useState(false)
    pc,                 \* position of the GeminiAI method under call
    requests            \* number of fetch calls it has made

ruleVars == <<rules, ruleDescription, priorityWeights, now>>
searchVars == <<searchQuery, searchResults, searchSource, isSearching>>
aiVars == <<pc, requests>>
extVars == <<ruleVars, searchVars, aiVars>>
uiVars == <<activeTab, dataTab, clients, workers, tasks, errors, aiCorrections,
            isProcessing, isGeneratingFixes, apiKey, inflight, timers, nops, extVars>>
fnVars == <<args, ret>>
vars == <<activeTab, dataTab, clients, workers, tasks, errors, aiCorrections,
          isProcessing, isGeneratingFixes, apiKey, inflight, timers, nops, last, args,
          ret, rules, ruleDescription, priorityWeights, now, searchQuery,
          searchResults, searchSource, isSearching, pc, requests>>

----------------------------------------------------------------------------
(* JavaScript values *)

(* The fields are written in the order in which TLC keeps the fields of a
   record, so that a value shared by two workers is never reordered in place. *)
Num(n) == [n |-> n, t |-> "number", s |-> "", a |-> <<>>, l |-> <<>>]
NaN == [n |-> 0, t |-> "NaN", s |-> "", a |-> <<>>, l |-> <<>>]
Str(s) == [n |-> 0, t |-> "string", s |-> s, a |-> <<>>, l |-> <<>>]
Arr(a) == [n |-> 0, t |-> "array", s |-> "", a |-> a, l |-> <<>>]
Strs(l) == [n |-> 0, t |-> "strings", s |-> "", a |-> <<>>, l |-> l]
Obj(json) == [n |-> 0, t |-> "object", s |-> json, a |-> <<>>, l |-> <<>>]
Undefined == [n |-> 0, t |-> "undefined", s |-> "", a |-> <<>>, l |-> <<>>]

(* The interfaces Client, Worker, Task and ValidationError as the model keeps
   them: identifiers, names and tags are strings, lists of strings are
   sequences, and what the code computes with is a JS value.  Every record
   of the module lists its fields in the order in which they first occur in
   it, which is the order in which TLC keeps them. *)
JsValue == [n : Int, t : STRING, s : STRING, a : Seq(Int), l : Seq(STRING)]

Client ==
    [ClientID : STRING, ClientName : STRING, PriorityLevel : JsValue,
     RequestedTaskIDs : Seq(STRING), GroupTag : STRING, AttributesJSON : JsValue]

Worker ==
    [WorkerID : STRING, WorkerName : STRING, Skills : Seq(STRING),
     AvailableSlots : JsValue, MaxLoadPerPhase : JsValue, WorkerGroup : STRING,
     QualificationLevel : JsValue]

Task ==
    [TaskID : STRING, TaskName : STRING, Category : STRING, Duration : JsValue,
     RequiredSkills : Seq(STRING), PreferredPhases : JsValue,
     MaxConcurrent : JsValue]

ValidationError ==
    [id : STRING, type : STRING, entityId : STRING, field : STRING,
     message : STRING, suggestion : STRING]

(* interface Rule; id is the number of rule-<Date.now()> *)
Rule ==
    [id : Nat, type : STRING, name : STRING, description : STRING,
     config : STRING, active : BOOLEAN]

IsInteger(v) == v.t = "number"

(* ToBoolean: undefined, '', 0 and NaN are falsy; objects and arrays are truthy. *)
Truthy(v) ==
    CASE v.t = "undefined" -> FALSE
      [] v.t = "NaN" -> FALSE
      [] v.t = "number" -> v.n # 0
      [] v.t = "string" -> v.s # ""
      [] OTHER -> TRUE

(* a || b *)
OrElse(v, d) == IF Truthy(v) THEN v ELSE d

----------------------------------------------------------------------------
(* Strings *)

UpperChars == "ABCDEFGHIJKLMNOPQRSTUVWXYZ"
LowerChars == "abcdefghijklmnopqrstuvwxyz"
Digits == "0123456789"

CharAt(s, i) == SubSeq(s, i, i)

Min(S) == CHOOSE x \in S : \A y \in S : x <= y
Max(S) == CHOOSE x \in S : \A y \in S : x >= y

(* 1-based position of character c in s, 0 when absent *)
IndexOfChar(s, c) ==
    LET at == {i \in 1..Len(s) : CharAt(s, i) = c} IN IF at = {} THEN 0 ELSE Min(at)

(* the lower-case letter of every upper-case letter *)
LowerOf ==
    [c \in {CharAt(UpperChars, k) : k \in 1..Len(UpperChars)} |->
        CharAt(LowerChars, IndexOfChar(UpperChars, c))]

LowerChar(c) == IF c \in DOMAIN LowerOf THEN LowerOf[c] ELSE c

(* every character lower-cased; the string is halved to keep the evaluation shallow *)
RECURSIVE toLowerCase(_)
toLowerCase(s) ==
    IF s = "" THEN ""
    ELSE IF Len(s) = 1 THEN LowerChar(s)
    ELSE toLowerCase(SubSeq(s, 1, Len(s) \div 2))
         \o toLowerCase(SubSeq(s, (Len(s) \div 2) + 1, Len(s)))

includes(s, sub) ==
    \E i \in 0..(Len(s) - Len(sub)) : SubSeq(s, i + 1, i + Len(sub)) = sub

IsSpace(c) == c = " "
DigitOf == [c \in {CharAt(Digits, k) : k \in 1..Len(Digits)} |-> IndexOfChar(Digits, c) - 1]
IsDigit(c) == c \in DOMAIN DigitOf
DigitValue(c) == DigitOf[c]

RECURSIVE trimStart(_)
trimStart(s) ==
    IF s # "" /\ IsSpace(CharAt(s, 1)) THEN trimStart(SubSeq(s, 2, Len(s))) ELSE s

RECURSIVE trimEnd(_)
trimEnd(s) ==
    IF s # "" /\ IsSpace(CharAt(s, Len(s))) THEN trimEnd(SubSeq(s, 1, Len(s) - 1)) ELSE s

trim(s) == trimEnd(trimStart(s))

(* s.split(sep) for a one-character separator: always at least one piece *)
RECURSIVE split(_, _)
split(s, sep) ==
    LET i == IndexOfChar(s, sep) IN
    IF i = 0 THEN <<s>>
    ELSE <<SubSeq(s, 1, i - 1)>> \o split(SubSeq(s, i + 1, Len(s)), sep)

(* Array.prototype.join *)
RECURSIVE join(_, _)
join(parts, sep) ==
    IF parts = <<>> THEN ""
    ELSE IF Len(parts) = 1 THEN parts[1]
    ELSE parts[1] \o sep \o join(Tail(parts), sep)

RECURSIVE NatToString(_)
NatToString(n) ==
    IF n < 10 THEN CharAt(Digits, n + 1)
    ELSE NatToString(n \div 10) \o CharAt(Digits, (n % 10) + 1)

IntToString(n) == IF n < 0 THEN "-" \o NatToString(-n) ELSE NatToString(n)

(* String(v) and template-literal interpolation *)
JsString(v) ==
    CASE v.t = "string" -> v.s
      [] v.t = "number" -> IntToString(v.n)
      [] v.t = "NaN" -> "NaN"
      [] v.t = "undefined" -> "undefined"
      [] v.t = "array" -> join([i \in 1..Len(v.a) |-> IntToString(v.a[i])], ",")
      [] v.t = "strings" -> join(v.l, ",")
      [] OTHER -> "[object Object]"

(* the longest prefix of s made of digits *)
RECURSIVE DigitPrefix(_)
DigitPrefix(s) ==
    IF s # "" /\ IsDigit(CharAt(s, 1))
    THEN CharAt(s, 1) \o DigitPrefix(SubSeq(s, 2, Len(s)))
    ELSE ""

RECURSIVE DigitsToNat(_, _)
DigitsToNat(s, acc) ==
    IF s = "" THEN acc
    ELSE DigitsToNat(SubSeq(s, 2, Len(s)), acc * 10 + DigitValue(CharAt(s, 1)))

(* parseInt of a string: leading white space, an optional sign, then the
   longest run of decimal digits; NaN when there is no digit. *)
parseIntString(str) ==
    LET s == trimStart(str)
        neg == s # "" /\ CharAt(s, 1) = "-"
        signed == s # "" /\ CharAt(s, 1) \in {"-", "+"}
        body == IF signed THEN SubSeq(s, 2, Len(s)) ELSE s
        ds == DigitPrefix(body)
    IN IF ds = "" THEN NaN
       ELSE Num(IF neg THEN 0 - DigitsToNat(ds, 0) ELSE DigitsToNat(ds, 0))

parseInt(v) == parseIntString(JsString(v))

(* ToNumber, as the relational operators apply it to an operand *)
ToNumber(v) ==
    CASE v.t = "number" -> v
      [] v.t = "string" ->
            LET s == trim(v.s)
                signed == s # "" /\ CharAt(s, 1) \in {"-", "+"}
                body == IF signed THEN SubSeq(s, 2, Len(s)) ELSE s
            IN IF s = "" THEN Num(0)
               ELSE IF body # "" /\ DigitPrefix(body) = body THEN parseIntString(s)
               ELSE NaN
      [] v.t = "array" ->
            IF v.a = <<>> THEN Num(0)
            ELSE IF Len(v.a) = 1 THEN Num(v.a[1]) ELSE NaN
      [] v.t = "strings" ->
            IF v.l = <<>> THEN Num(0)
            ELSE IF Len(v.l) = 1 /\ v.l[1] # "" /\ DigitPrefix(v.l[1]) = v.l[1]
            THEN parseIntString(v.l[1]) ELSE NaN
      [] OTHER -> NaN

(* v < k and v > k for a numeric literal k: false when v converts to NaN *)
JsLess(v, k) == LET x == ToNumber(v) IN x.t = "number" /\ x.n < k
JsGreater(v, k) == LET x == ToNumber(v) IN x.t = "number" /\ x.n > k

(* Array.prototype.slice(0, n) *)
sliceTo(seq, n) == SubSeq(seq, 1, IF Len(seq) < n THEN Len(seq) ELSE n)

(* s.split(',').map(s => s.trim()).filter(Boolean) *)
splitTrimmed(s) ==
    LET parts == split(s, ",")
        trimmed == [i \in 1..Len(parts) |-> trim(parts[i])]
        NonEmpty(p) == p # ""
    IN SelectSeq(trimmed, NonEmpty)

----------------------------------------------------------------------------
(* Validation *)

(* the concatenation of the sequences f[1], ..., f[n] *)
RECURSIVE Flatten(_, _)
Flatten(f, n) == IF n = 0 THEN <<>> ELSE Flatten(f, n - 1) \o f[n]

(* new Set(tasks.map(t => t.TaskID)) *)
TaskIdSet(ts) == {ts[i].TaskID : i \in 1..Len(ts)}

(* mutant: only the preceding client's ID is remembered *)
SeenClientIdPrevOnly(cs, i) == i > 1 /\ cs[i - 1].ClientID = cs[i].ClientID

(* clientIds.has(client.ClientID) when the forEach reaches clients[i] *)
SeenClientId(cs, i) == \E j \in 1..(i - 1) : cs[j].ClientID = cs[i].ClientID

SeenWorkerId(ws, i) == \E j \in 1..(i - 1) : ws[j].WorkerID = ws[i].WorkerID

DupClientError(c) ==
    [id |-> "dup-client-" \o c.ClientID, type |-> "error", entityId |-> c.ClientID,
     field |-> "ClientID", message |-> "Duplicate Client ID: " \o c.ClientID,
     suggestion |-> "Use unique IDs for each client"]

(* mutant: the upper limit is off by one *)
PriorityOutOfRangeOffByOne(c) == JsLess(c.PriorityLevel, 1) \/ JsGreater(c.PriorityLevel, 4)

PriorityOutOfRange(c) == JsLess(c.PriorityLevel, 1) \/ JsGreater(c.PriorityLevel, 5)

PriorityError(c) ==
    [id |-> "priority-" \o c.ClientID, type |-> "error", entityId |-> c.ClientID,
     field |-> "PriorityLevel",
     message |-> "Priority must be 1-5, got " \o JsString(c.PriorityLevel),
     suggestion |-> "Set priority between 1 and 5"]

UnknownTaskError(c, taskId) ==
    [id |-> "unknown-task-" \o c.ClientID \o "-" \o taskId, type |-> "error",
     entityId |-> c.ClientID, field |-> "RequestedTaskIDs",
     message |-> "Unknown task ID: " \o taskId,
     suggestion |-> "Remove invalid task ID or add corresponding task"]

DupWorkerError(w) ==
    [id |-> "dup-worker-" \o w.WorkerID, type |-> "error", entityId |-> w.WorkerID,
     field |-> "WorkerID", message |-> "Duplicate Worker ID: " \o w.WorkerID,
     suggestion |-> "Use unique IDs for each worker"]

QualificationOutOfRange(w) ==
    JsLess(w.QualificationLevel, 1) \/ JsGreater(w.QualificationLevel, 5)

QualificationError(w) ==
    [id |-> "qual-" \o w.WorkerID, type |-> "error", entityId |-> w.WorkerID,
     field |-> "QualificationLevel",
     message |-> "Qualification must be 1-5, got " \o JsString(w.QualificationLevel),
     suggestion |-> "Set qualification between 1 and 5"]

DurationOutOfRange(t) == JsLess(t.Duration, 1)

DurationError(t) ==
    [id |-> "duration-" \o t.TaskID, type |-> "error", entityId |-> t.TaskID,
     field |-> "Duration",
     message |-> "Duration must be at least 1, got " \o JsString(t.Duration),
     suggestion |-> "Set duration to positive number"]

(* first forEach over clients: duplicate ID, then priority range *)
ClientChecks(cs) ==
    Flatten([i \in 1..Len(cs) |->
                (IF SeenClientId(cs, i) THEN <<DupClientError(cs[i])>> ELSE <<>>)
                \o (IF PriorityOutOfRange(cs[i]) THEN <<PriorityError(cs[i])>> ELSE <<>>)],
            Len(cs))

(* mutant: only the first requested task ID of a client is looked up *)
TaskReferenceChecksFirstOnly(cs, ts) ==
    Flatten([i \in 1..Len(cs) |->
                LET req == cs[i].RequestedTaskIDs IN
                IF req # <<>> /\ req[1] \notin TaskIdSet(ts)
                THEN <<UnknownTaskError(cs[i], req[1])>> ELSE <<>>],
            Len(cs))

(* second forEach over clients: every requested task ID must be a TaskID.
   RequestedTaskIDs is an array in every record the component stores, so the
   typeof === 'string' branch is never taken. *)
TaskReferenceChecks(cs, ts) ==
    Flatten([i \in 1..Len(cs) |->
                LET req == cs[i].RequestedTaskIDs IN
                Flatten([k \in 1..Len(req) |->
                            IF req[k] \notin TaskIdSet(ts)
                            THEN <<UnknownTaskError(cs[i], req[k])>> ELSE <<>>],
                        Len(req))],
            Len(cs))

WorkerChecks(ws) ==
    Flatten([i \in 1..Len(ws) |->
                (IF SeenWorkerId(ws, i) THEN <<DupWorkerError(ws[i])>> ELSE <<>>)
                \o (IF QualificationOutOfRange(ws[i])
                    THEN <<QualificationError(ws[i])>> ELSE <<>>)],
            Len(ws))

TaskChecks(ts) ==
    Flatten([i \in 1..Len(ts) |->
                IF DurationOutOfRange(ts[i]) THEN <<DurationError(ts[i])>> ELSE <<>>],
            Len(ts))

validateData(cs, ws, ts) ==
    ClientChecks(cs) \o TaskReferenceChecks(cs, ts) \o WorkerChecks(ws) \o TaskChecks(ts)


----------------------------------------------------------------------------
(* Normalisation.  A raw row is a record of JavaScript values, Undefined for
   a column the row lacks; CSV cells are strings, Excel cells strings or
   numbers. *)

(* a JSON integer literal: an optional minus sign, then digits without a
   leading zero *)
IsIntLiteral(s) ==
    LET body == IF s # "" /\ CharAt(s, 1) = "-" THEN SubSeq(s, 2, Len(s)) ELSE s
    IN /\ body # ""
       /\ DigitPrefix(body) = body
       /\ (Len(body) > 1 => CharAt(body, 1) # "0")

(* the JSON object texts JSON.parse is given here, each in the form
   JSON.stringify prints it *)
JsonObjectTexts == {"{}", "{\"vip\":true}"}

(* JSON.parse(s) for an array of integers, an integer or one of the object
   texts; [threw |-> TRUE] for any other text *)
JSONparse(s) ==
    LET str == trim(s)
        inner == trim(SubSeq(str, 2, Len(str) - 1))
        parts == split(inner, ",")
        items == [i \in 1..Len(parts) |-> trim(parts[i])]
    IN IF Len(str) >= 2 /\ CharAt(str, 1) = "[" /\ CharAt(str, Len(str)) = "]"
       THEN IF inner = "" THEN [threw |-> FALSE, value |-> Arr(<<>>)]
            ELSE IF \A i \in 1..Len(items) : IsIntLiteral(items[i])
            THEN [threw |-> FALSE,
                  value |-> Arr([i \in 1..Len(items) |-> parseIntString(items[i]).n])]
            ELSE [threw |-> TRUE, value |-> Undefined]
       ELSE IF IsIntLiteral(str) THEN [threw |-> FALSE, value |-> parseIntString(str)]
       ELSE IF str \in JsonObjectTexts THEN [threw |-> FALSE, value |-> Obj(str)]
       ELSE [threw |-> TRUE, value |-> Undefined]

startsWith(s, prefix) == Len(s) >= Len(prefix) /\ SubSeq(s, 1, Len(prefix)) = prefix
endsWith(s, suffix) ==
    Len(s) >= Len(suffix) /\ SubSeq(s, Len(s) - Len(suffix) + 1, Len(s)) = suffix

(* s.split(',').map(s => parseInt(s.trim())).filter(n => !isNaN(n)) *)
splitInts(s) ==
    LET parts == split(s, ",")
        nums == [i \in 1..Len(parts) |-> parseIntString(trim(parts[i]))]
        IsNumber(v) == v.t = "number"
        kept == SelectSeq(nums, IsNumber)
    IN [i \in 1..Len(kept) |-> kept[i].n]

parseSlots(slotsString) ==
    IF startsWith(slotsString, "[") /\ endsWith(slotsString, "]")
    THEN LET r == JSONparse(slotsString) IN IF r.threw THEN Arr(<<>>) ELSE r.value
    ELSE Arr(splitInts(slotsString))

parsePhases(phasesString) ==
    IF includes(phasesString, "-")
    THEN LET parts == split(phasesString, "-")
             start == parseIntString(trim(parts[1]))
             end == parseIntString(trim(parts[2]))
         IN IF start.t = "number" /\ end.t = "number" /\ start.n <= end.n
            THEN Arr([i \in 1..(end.n - start.n + 1) |-> start.n + i - 1])
            ELSE Arr(<<>>)
    ELSE parseSlots(phasesString)

(* (cell || dflt).split(...), .startsWith(...) or .includes(...) is a call of a
   string method: a TypeError when the cell is a non-zero number *)
NotAString(cell, dflt) == OrElse(cell, Str(dflt)).t # "string"

(* typeof cell === 'string' ? (try JSON.parse(cell) catch {}) : (cell || {}) *)
normalizeAttributes(cell) ==
    IF cell.t = "string"
    THEN LET r == JSONparse(cell.s) IN IF r.threw THEN Obj("{}") ELSE r.value
    ELSE OrElse(cell, Obj("{}"))

normalizeClient(row, index) ==
    [ClientID |-> JsString(OrElse(row.ClientID, Str("C" \o IntToString(index + 1)))),
     ClientName |-> JsString(OrElse(row.ClientName, Str("Unknown"))),
     PriorityLevel |-> parseInt(OrElse(row.PriorityLevel, Str("1"))),
     RequestedTaskIDs |-> splitTrimmed(OrElse(row.RequestedTaskIDs, Str("")).s),
     GroupTag |-> JsString(OrElse(row.GroupTag, Str("Default"))),
     AttributesJSON |-> normalizeAttributes(row.AttributesJSON)]

normalizeWorker(row, index) ==
    [WorkerID |-> JsString(OrElse(row.WorkerID, Str("W" \o IntToString(index + 1)))),
     WorkerName |-> JsString(OrElse(row.WorkerName, Str("Unknown"))),
     Skills |-> splitTrimmed(OrElse(row.Skills, Str("")).s),
     AvailableSlots |-> parseSlots(OrElse(row.AvailableSlots, Str("[]")).s),
     MaxLoadPerPhase |-> parseInt(OrElse(row.MaxLoadPerPhase, Str("1"))),
     WorkerGroup |-> JsString(OrElse(row.WorkerGroup, Str("Default"))),
     QualificationLevel |-> parseInt(OrElse(row.QualificationLevel, Str("1")))]

normalizeTask(row, index) ==
    [TaskID |-> JsString(OrElse(row.TaskID, Str("T" \o IntToString(index + 1)))),
     TaskName |-> JsString(OrElse(row.TaskName, Str("Unknown"))),
     Category |-> JsString(OrElse(row.Category, Str("General"))),
     Duration |-> parseInt(OrElse(row.Duration, Str("1"))),
     RequiredSkills |-> splitTrimmed(OrElse(row.RequiredSkills, Str("")).s),
     PreferredPhases |-> parsePhases(OrElse(row.PreferredPhases, Str("[]")).s),
     MaxConcurrent |-> parseInt(OrElse(row.MaxConcurrent, Str("1")))]

(* the row makes normalizeData throw a TypeError *)
RowThrows(row, type) ==
    CASE type = "clients" -> NotAString(row.RequestedTaskIDs, "")
      [] type = "workers" ->
            NotAString(row.Skills, "") \/ NotAString(row.AvailableSlots, "[]")
      [] OTHER ->
            NotAString(row.RequiredSkills, "") \/ NotAString(row.PreferredPhases, "[]")

(* rawData.map((row, index) => ...): index is 0-based; [threw |-> TRUE] when a
   row throws *)
normalizeData(rawData, type) ==
    IF \E i \in 1..Len(rawData) : RowThrows(rawData[i], type)
    THEN [threw |-> TRUE, value |-> <<>>]
    ELSE [threw |-> FALSE,
          value |-> [i \in 1..Len(rawData) |->
                        CASE type = "clients" -> normalizeClient(rawData[i], i - 1)
                          [] type = "workers" -> normalizeWorker(rawData[i], i - 1)
                          [] OTHER -> normalizeTask(rawData[i], i - 1)]]


----------------------------------------------------------------------------
(* The component's state after construction *)

NoArgs == [fn |-> "none"]

UIInit ==
    /\ activeTab = "upload"
    /\ dataTab = "clients"
    /\ clients = <<>>
    /\ workers = <<>>
    /\ tasks = <<>>
    /\ errors = <<>>
    /\ aiCorrections = <<>>
    /\ isProcessing = FALSE
    /\ isGeneratingFixes = FALSE
    /\ inflight = <<>>
    /\ timers = <<>>
    /\ nops = 0
    /\ rules = <<>>
    /\ ruleDescription = ""
    /\ priorityWeights = [priorityLevel |-> 30, taskFulfillment |-> 25, fairness |-> 20,
                          workloadBalance |-> 15, skillMatch |-> 10]
    /\ now = 0
    /\ searchQuery = ""
    /\ searchResults = <<>>
    /\ searchSource = "null"
    /\ isSearching = FALSE
    /\ pc = "idle"
    /\ requests = 0

----------------------------------------------------------------------------
(* validateData as a function of its three arguments *)

MaxRecords == 3

MkClient(id, priority, requested) ==
    [ClientID |-> id, ClientName |-> "Unknown", PriorityLevel |-> priority,
     RequestedTaskIDs |-> requested, GroupTag |-> "Default",
     AttributesJSON |-> Obj("{}")]

MkWorker(id, qualification) ==
    [WorkerID |-> id, WorkerName |-> "Unknown", Skills |-> <<>>,
     AvailableSlots |-> Arr(<<>>), MaxLoadPerPhase |-> Num(1),
     WorkerGroup |-> "Default", QualificationLevel |-> qualification]

MkTask(id, duration) ==
    [TaskID |-> id, TaskName |-> "Unknown", Category |-> "General",
     Duration |-> duration, RequiredSkills |-> <<>>, PreferredPhases |-> Arr(<<>>),
     MaxConcurrent |-> Num(1)]

ClientIdInputs == {"C1", "C2"}
WorkerIdInputs == {"W1", "W2"}
TaskIdInputs == {"T1", "T2"}
LevelInputs == {Num(0), Num(1), Num(5), Num(6)}
DurationInputs == {Num(0), Num(1)}
RequestedInputs == {<<>>, <<"T1">>, <<"T1", "T2">>}

ClientInputs ==
    {MkClient(id, p, r) : id \in ClientIdInputs, p \in LevelInputs, r \in RequestedInputs}
WorkerInputs == {MkWorker(id, q) : id \in WorkerIdInputs, q \in LevelInputs}
TaskInputs == {MkTask(id, d) : id \in TaskIdInputs, d \in DurationInputs}

InitValidate ==
    /\ UIInit
    /\ apiKey = FALSE
    /\ last = "init"
    /\ ret = <<>>
    /\ \E nc \in 0..MaxRecords : \E nw \in 0..(MaxRecords - nc) :
       \E nt \in 0..(MaxRecords - nc - nw) :
       \E cs \in [1..nc -> ClientInputs] : \E ws \in [1..nw -> WorkerInputs] :
       \E ts \in [1..nt -> TaskInputs] :
          args = [clients |-> cs, workers |-> ws, tasks |-> ts, fn |-> "validateData"]

CallValidateData ==
    /\ last = "init"
    /\ args.fn = "validateData"
    /\ ret' = validateData(args.clients, args.workers, args.tasks)
    /\ last' = "validateData"
    /\ UNCHANGED <<uiVars, args>>

NextValidate == CallValidateData

SpecValidate == InitValidate /\ [][NextValidate]_vars

(* the indices of the entries of a list that satisfy Test *)
Indices(seq, Test(_)) == {i \in 1..Len(seq) : Test(seq[i])}

Elements(seq) == {seq[i] : i \in 1..Len(seq)}

Validated == last = "validateData"


IsUnknownTaskError(e, cid, t) ==
    e.field = "RequestedTaskIDs" /\ e.entityId = cid /\ e.message = "Unknown task ID: " \o t

(* the number of errors about `field` whose entityId is `id` *)
ErrorCount(errs, field, id) ==
    Cardinality({k \in 1..Len(errs) : errs[k].field = field /\ errs[k].entityId = id})

(* C5: validateData returns an unknown-task error for client ID cid and task ID
   t exactly when some client with that ID requests t and no task has TaskID
   t; hence it returns no unknown-task error if and only if every requested
   task ID of every client is the TaskID of some task. *)
C5_UnknownTaskErrorsExact ==
    Validated =>
        /\ \A cid \in ClientIdInputs, t \in TaskIdInputs :
              (\E e \in Elements(ret) : IsUnknownTaskError(e, cid, t))
              <=> (\E i \in 1..Len(args.clients) :
                      /\ args.clients[i].ClientID = cid
                      /\ t \in Elements(args.clients[i].RequestedTaskIDs)
                      /\ \A j \in 1..Len(args.tasks) : args.tasks[j].TaskID # t)
        /\ (\A e \in Elements(ret) : e.field # "RequestedTaskIDs")
              <=> (\A i \in 1..Len(args.clients) :
                      \A t \in Elements(args.clients[i].RequestedTaskIDs) :
                         \E j \in 1..Len(args.tasks) : args.tasks[j].TaskID = t)

C5_Witness ==
    /\ Validated
    /\ \E i \in 1..Len(args.clients) :
          /\ args.clients[i].ClientID = "C1"
          /\ args.clients[i].RequestedTaskIDs = <<"T1", "T2">>
    /\ \E e \in Elements(ret) : IsUnknownTaskError(e, "C1", "T2")
    /\ ~ \E e \in Elements(ret) : IsUnknownTaskError(e, "C1", "T1")

(* C6: for every ID, validateData returns one duplicate-ID error for each
   client carrying that ID after the first one in the list, and none when the
   ID occurs at most once; the same for workers and WorkerID. *)
C6_DuplicateErrorsExact ==
    Validated =>
        /\ \A id \in ClientIdInputs :
              LET n == Cardinality({i \in 1..Len(args.clients) :
                                       args.clients[i].ClientID = id})
              IN ErrorCount(ret, "ClientID", id) = IF n = 0 THEN 0 ELSE n - 1
        /\ \A id \in WorkerIdInputs :
              LET n == Cardinality({i \in 1..Len(args.workers) :
                                       args.workers[i].WorkerID = id})
              IN ErrorCount(ret, "WorkerID", id) = IF n = 0 THEN 0 ELSE n - 1
        /\ \A e \in Elements(ret) :
              /\ e.field = "ClientID" => e.entityId \in ClientIdInputs
              /\ e.field = "WorkerID" => e.entityId \in WorkerIdInputs

C6_Witness ==
    /\ Validated
    /\ Len(args.clients) = 3
    /\ args.clients[1].ClientID = "C1"
    /\ args.clients[2].ClientID = "C2"
    /\ args.clients[3].ClientID = "C1"
    /\ ErrorCount(ret, "ClientID", "C1") = 1
    /\ ErrorCount(ret, "ClientID", "C2") = 0

(* C7: whenever two tasks of the list share a TaskID, validateData returns at
   least one error whose entityId is that TaskID. *)
C7_DuplicateTaskIdReported ==
    Validated =>
        \A i \in 1..Len(args.tasks), j \in 1..Len(args.tasks) :
            (i < j /\ args.tasks[i].TaskID = args.tasks[j].TaskID)
            => \E e \in Elements(ret) : e.entityId = args.tasks[i].TaskID

(* C8: for integer field values, the PriorityLevel errors about a client ID
   are as many as the clients with that ID whose PriorityLevel is below 1 or
   above 5; likewise QualificationLevel for workers; the Duration errors about
   a task ID are as many as the tasks with that ID whose Duration is below 1. *)
C8_RangeErrorsExact ==
    (/\ Validated
     /\ \A i \in 1..Len(args.clients) : IsInteger(args.clients[i].PriorityLevel)
     /\ \A i \in 1..Len(args.workers) : IsInteger(args.workers[i].QualificationLevel)
     /\ \A i \in 1..Len(args.tasks) : IsInteger(args.tasks[i].Duration))
    =>
        /\ \A id \in ClientIdInputs :
              ErrorCount(ret, "PriorityLevel", id)
              = Cardinality({i \in 1..Len(args.clients) :
                                /\ args.clients[i].ClientID = id
                                /\ (args.clients[i].PriorityLevel.n < 1
                                    \/ args.clients[i].PriorityLevel.n > 5)})
        /\ \A id \in WorkerIdInputs :
              ErrorCount(ret, "QualificationLevel", id)
              = Cardinality({i \in 1..Len(args.workers) :
                                /\ args.workers[i].WorkerID = id
                                /\ (args.workers[i].QualificationLevel.n < 1
                                    \/ args.workers[i].QualificationLevel.n > 5)})
        /\ \A id \in TaskIdInputs :
              ErrorCount(ret, "Duration", id)
              = Cardinality({i \in 1..Len(args.tasks) :
                                /\ args.tasks[i].TaskID = id
                                /\ args.tasks[i].Duration.n < 1})
        /\ \A e \in Elements(ret) :
              /\ e.field = "PriorityLevel" => e.entityId \in ClientIdInputs
              /\ e.field = "QualificationLevel" => e.entityId \in WorkerIdInputs
              /\ e.field = "Duration" => e.entityId \in TaskIdInputs

C8_Witness ==
    /\ Validated
    /\ Len(args.clients) = 2
    /\ args.clients[1].PriorityLevel = Num(5)
    /\ args.clients[2].PriorityLevel = Num(6)
    /\ args.clients[1].ClientID # args.clients[2].ClientID
    /\ ErrorCount(ret, "PriorityLevel", args.clients[1].ClientID) = 0
    /\ ErrorCount(ret, "PriorityLevel", args.clients[2].ClientID) = 1
    /\ Len(args.tasks) = 1
    /\ args.tasks[1].Duration = Num(0)
    /\ ErrorCount(ret, "Duration", args.tasks[1].TaskID) = 1


----------------------------------------------------------------------------
(* normalizeData followed by validateData, as handleFileUpload and
   loadSampleData chain them *)

MaxRows == 2

NumericCells ==
    {Undefined, Str(""), Str("0"), Str("3"), Str("-2"), Str("7"), Str("abc"),
     Num(0), Num(4), Num(-1)}

RawClient(id, priority, requested) ==
    [ClientID |-> id, ClientName |-> Undefined, PriorityLevel |-> priority,
     RequestedTaskIDs |-> requested, GroupTag |-> Undefined,
     AttributesJSON |-> Undefined]

RawWorker(id, qualification) ==
    [WorkerID |-> id, WorkerName |-> Undefined, Skills |-> Undefined,
     AvailableSlots |-> Undefined, MaxLoadPerPhase |-> Undefined,
     WorkerGroup |-> Undefined, QualificationLevel |-> qualification]

RawTask(id, duration) ==
    [TaskID |-> id, TaskName |-> Undefined, Category |-> Undefined,
     Duration |-> duration, RequiredSkills |-> Undefined,
     PreferredPhases |-> Undefined, MaxConcurrent |-> Undefined]

RawClientInputs ==
    {RawClient(id, p, Undefined) : id \in {Undefined, Str("C2")}, p \in NumericCells}
RawWorkerInputs ==
    {RawWorker(id, q) : id \in {Undefined, Str("W2")}, q \in NumericCells}
RawTaskInputs ==
    {RawTask(id, d) : id \in {Undefined, Str("T2")}, d \in NumericCells}

InitNormalize ==
    /\ UIInit
    /\ apiKey = FALSE
    /\ last = "init"
    /\ ret = <<>>
    /\ \E nc \in 0..MaxRows : \E nw \in 0..(MaxRows - nc) :
       \E nt \in 0..(MaxRows - nc - nw) :
       \E cs \in [1..nc -> RawClientInputs] : \E ws \in [1..nw -> RawWorkerInputs] :
       \E ts \in [1..nt -> RawTaskInputs] :
          args = [clients |-> cs, workers |-> ws, tasks |-> ts, fn |-> "normalizeData"]

(* normalizeData on each of the three lists of raw rows, then validateData on
   the three results *)
CallNormalizeData ==
    /\ last = "init"
    /\ args.fn = "normalizeData"
    /\ LET nc == normalizeData(args.clients, "clients")
           nw == normalizeData(args.workers, "workers")
           nt == normalizeData(args.tasks, "tasks")
       IN /\ ~ nc.threw /\ ~ nw.threw /\ ~ nt.threw
          /\ ret' = [clients |-> nc.value, workers |-> nw.value, tasks |-> nt.value,
                     errors |-> validateData(nc.value, nw.value, nt.value)]
    /\ last' = "normalizeData"
    /\ UNCHANGED <<uiVars, args>>

NextNormalize == CallNormalizeData

SpecNormalize == InitNormalize /\ [][NextNormalize]_vars

InRange(v, lo, hi) == v.t = "number" /\ lo <= v.n /\ v.n <= hi

(* C9: if validateData returns no errors for the records normalizeData
   produced, every client's PriorityLevel and every worker's
   QualificationLevel is an integer from 1 to 5 and every task's Duration is
   an integer of at least 1. *)
C9_NoErrorsMeansInRange ==
    (last = "normalizeData" /\ ret.errors = <<>>) =>
        /\ \A i \in 1..Len(ret.clients) : InRange(ret.clients[i].PriorityLevel, 1, 5)
        /\ \A i \in 1..Len(ret.workers) :
              InRange(ret.workers[i].QualificationLevel, 1, 5)
        /\ \A i \in 1..Len(ret.tasks) :
              ret.tasks[i].Duration.t = "number" /\ ret.tasks[i].Duration.n >= 1


----------------------------------------------------------------------------
(* JSON.stringify of the stored records *)

(* a string literal; the texts handled here hold no quote or backslash *)
JSONquote(s) == "\"" \o s \o "\""

JSONstringifyStrings(seq) ==
    "[" \o join([i \in 1..Len(seq) |-> JSONquote(seq[i])], ",") \o "]"

JSONstringifyValue(v) ==
    CASE v.t = "number" -> IntToString(v.n)
      [] v.t = "NaN" -> "null"
      [] v.t = "string" -> JSONquote(v.s)
      [] v.t = "array" -> "[" \o join([i \in 1..Len(v.a) |-> IntToString(v.a[i])], ",") \o "]"
      [] v.t = "strings" -> JSONstringifyStrings(v.l)
      [] v.t = "object" -> v.s
      [] OTHER -> "null"

(* JSON.stringify(item): the keys in the order normalizeData creates them *)
JSONstringify(item) ==
    IF "ClientID" \in DOMAIN item
    THEN "{\"ClientID\":" \o JSONquote(item.ClientID)
         \o ",\"ClientName\":" \o JSONquote(item.ClientName)
         \o ",\"PriorityLevel\":" \o JSONstringifyValue(item.PriorityLevel)
         \o ",\"RequestedTaskIDs\":" \o JSONstringifyStrings(item.RequestedTaskIDs)
         \o ",\"GroupTag\":" \o JSONquote(item.GroupTag)
         \o ",\"AttributesJSON\":" \o JSONstringifyValue(item.AttributesJSON) \o "}"
    ELSE IF "WorkerID" \in DOMAIN item
    THEN "{\"WorkerID\":" \o JSONquote(item.WorkerID)
         \o ",\"WorkerName\":" \o JSONquote(item.WorkerName)
         \o ",\"Skills\":" \o JSONstringifyStrings(item.Skills)
         \o ",\"AvailableSlots\":" \o JSONstringifyValue(item.AvailableSlots)
         \o ",\"MaxLoadPerPhase\":" \o JSONstringifyValue(item.MaxLoadPerPhase)
         \o ",\"WorkerGroup\":" \o JSONquote(item.WorkerGroup)
         \o ",\"QualificationLevel\":" \o JSONstringifyValue(item.QualificationLevel) \o "}"
    ELSE "{\"TaskID\":" \o JSONquote(item.TaskID)
         \o ",\"TaskName\":" \o JSONquote(item.TaskName)
         \o ",\"Category\":" \o JSONquote(item.Category)
         \o ",\"Duration\":" \o JSONstringifyValue(item.Duration)
         \o ",\"RequiredSkills\":" \o JSONstringifyStrings(item.RequiredSkills)
         \o ",\"PreferredPhases\":" \o JSONstringifyValue(item.PreferredPhases)
         \o ",\"MaxConcurrent\":" \o JSONstringifyValue(item.MaxConcurrent) \o "}"

JSONstringifyList(items) ==
    "[" \o join([i \in 1..Len(items) |-> JSONstringify(items[i])], ",") \o "]"

----------------------------------------------------------------------------
(* GeminiAI *)

(* 1-based position of the first occurrence of pat in s, 0 when absent *)
indexOf(s, pat) ==
    LET at == {i \in 1..(Len(s) - Len(pat) + 1) : SubSeq(s, i, i + Len(pat) - 1) = pat}
    IN IF at = {} THEN 0 ELSE Min(at)

lastIndexOfChar(s, c) ==
    LET at == {i \in 1..Len(s) : CharAt(s, i) = c} IN IF at = {} THEN 0 ELSE Max(at)

(* a Markdown code fence: three backticks.  A TLA+ string cannot hold a
   backtick, so the character ~ stands for it in every response text. *)
Fence == "~~~"

(* response.replace: every code fence, with or without the json tag, is removed *)
RECURSIVE stripFences(_)
stripFences(s) ==
    LET i == indexOf(s, Fence)
        rest == SubSeq(s, i, Len(s))
        n == Len(IF startsWith(rest, Fence \o "json") THEN Fence \o "json" ELSE Fence)
    IN IF i = 0 THEN s
       ELSE SubSeq(s, 1, i - 1) \o stripFences(SubSeq(rest, n + 1, Len(rest)))

(* mutant: the catch block passes the error on, Thrown standing for it *)
generateContentRethrowing(hasKey, outcome) ==
    IF ~ hasKey THEN "API key not configured"
    ELSE IF outcome.kind = "text" /\ outcome.text # "" THEN outcome.text
    ELSE "Thrown"

(* generateContent: the outcome of the fetch is the environment's choice.
   kind "reject": fetch or response.json() rejects; "status": response.ok is
   false; "nocontent": candidates[0].content.parts[0].text is missing or
   empty; "text": it is outcome.text. *)
generateContent(hasKey, outcome) ==
    IF ~ hasKey THEN "API key not configured"
    ELSE IF outcome.kind = "text" /\ outcome.text # "" THEN outcome.text
    ELSE "AI temporarily unavailable"

SearchLimit == 20

(* mutant: the query is not lower-cased before the comparison *)
localSearchCaseSensitive(query, data) ==
    LET Matches(item) == includes(toLowerCase(JSONstringify(item)), query)
    IN sliceTo(SelectSeq(data, Matches), SearchLimit)

(* the catch block of searchData *)
localSearch(query, data) ==
    LET Matches(item) == includes(toLowerCase(JSONstringify(item)), toLowerCase(query))
    IN sliceTo(SelectSeq(data, Matches), SearchLimit)

(* the lists of records whose JSON text the service answers with *)
AnswerLists(data) == {sliceTo(data, n) : n \in 0..1}

(* JSON.parse of a response text: a list of records when the text is the JSON
   text of one of AnswerLists(data), otherwise as JSONparse *)
JSONparseResponse(text, data) ==
    IF \E l \in AnswerLists(data) : JSONstringifyList(l) = trim(text)
    THEN [threw |-> FALSE,
          value |-> CHOOSE l \in AnswerLists(data) : JSONstringifyList(l) = trim(text),
          isArray |-> TRUE]
    ELSE LET r == JSONparse(text)
         IN [threw |-> r.threw,
             value |-> IF r.threw \/ r.value.t # "array" THEN <<>>
                       ELSE [i \in 1..Len(r.value.a) |-> Num(r.value.a[i])],
             isArray |-> (~ r.threw /\ r.value.t = "array")]

(* cleanedResponse.match: from the first opening bracket to the last closing one *)
matchBrackets(s) ==
    LET i == IndexOfChar(s, "[")
        j == lastIndexOfChar(s, "]")
    IN IF i # 0 /\ j > i THEN [text |-> SubSeq(s, i, j), found |-> TRUE]
       ELSE [text |-> "", found |-> FALSE]

searchData(query, data, hasKey, outcome) ==
    IF trim(query) = "" \/ Len(data) = 0 THEN [results |-> <<>>, source |-> "local"]
    ELSE
    LET response == generateContent(hasKey, outcome)
        fallback == [results |-> localSearch(query, data), source |-> "local"]
        cleanedResponse == trim(stripFences(response))
        whole == JSONparseResponse(cleanedResponse, data)
        jsonMatch == matchBrackets(cleanedResponse)
        extracted == JSONparseResponse(jsonMatch.text, data)
        parsed == IF ~ whole.threw THEN whole ELSE extracted
    IN IF response = "API key not configured" \/ response = "AI temporarily unavailable"
       THEN fallback
       ELSE IF whole.threw /\ (~ jsonMatch.found \/ extracted.threw) THEN fallback
       ELSE IF parsed.isArray
       THEN [results |-> sliceTo(parsed.value, SearchLimit), source |-> "ai"]
       ELSE fallback


----------------------------------------------------------------------------
(* searchData as a function of the query, the data and the outcome of the
   request *)

MaxData == 22

(* the i-th record of a data list of the given pattern; the IDs are distinct *)
DataItem(pattern, i) ==
    LET n == IntToString(i)
        client == [MkClient("C" \o n, Num(3), <<"T1">>) EXCEPT !.ClientName = "Acme"]
        worker == [MkWorker("W" \o n, Num(2)) EXCEPT !.WorkerName = "Bolt"]
        task == [MkTask("T" \o n, Num(1)) EXCEPT !.TaskName = "acme wash"]
    IN CASE pattern = "clients" -> client
         [] pattern = "mixed" -> IF i % 3 = 1 THEN client
                                 ELSE IF i % 3 = 2 THEN worker ELSE task
         [] OTHER -> IF i = 1 THEN worker ELSE client

DataPatterns == {"clients", "mixed", "workerFirst"}

QueryInputs == {"", " ", "ACME", "Bolt", "c1", " acme"}

(* texts that neither are JSON arrays nor hold one between brackets *)
UnparsableTexts == {"no matches", "{}", "5", "see [this] item"}

ResponseTexts(data) ==
    UnparsableTexts
    \cup {"[1,2]"}
    \cup {JSONstringifyList(l) : l \in AnswerLists(data)}
    \cup {Fence \o "json " \o JSONstringifyList(l) \o " " \o Fence : l \in AnswerLists(data)}
    \cup {"Matches: " \o JSONstringifyList(l) \o " found" : l \in AnswerLists(data)}

Outcomes(data) ==
    {[kind |-> k, text |-> ""] : k \in {"reject", "status", "nocontent"}}
    \cup {[kind |-> "text", text |-> t] : t \in ResponseTexts(data)}

InitSearch ==
    /\ UIInit
    /\ last = "init"
    /\ ret = <<>>
    /\ apiKey \in BOOLEAN
    /\ \E n \in 0..MaxData : \E p \in DataPatterns : \E q \in QueryInputs :
          LET data == [i \in 1..n |-> DataItem(p, i)] IN
          \E o \in Outcomes(data) :
             \* without a key no request is made: one outcome stands for all
             /\ ~ apiKey => o.kind = "reject"
             /\ args = [fn |-> "searchData", outcome |-> o, query |-> q, data |-> data]

CallSearchData ==
    /\ last = "init"
    /\ args.fn = "searchData"
    /\ ret' = searchData(args.query, args.data, apiKey, args.outcome)
    /\ last' = "searchData"
    /\ UNCHANGED <<uiVars, args>>

NextSearch == CallSearchData

SpecSearch == InitSearch /\ [][NextSearch]_vars

(* the two characters are the same letter in either case, or the same character *)
CasePairs == {<<CharAt(UpperChars, k), CharAt(LowerChars, k)>> : k \in 1..Len(UpperChars)}

SameIgnoringCase(a, b) == a = b \/ <<a, b>> \in CasePairs \/ <<b, a>> \in CasePairs

ContainsIgnoringCase(text, q) ==
    \E off \in 0..(Len(text) - Len(q)) :
        \A j \in 1..Len(q) : SameIgnoringCase(CharAt(text, off + j), CharAt(q, j))

(* the k-th smallest element of a set of integers *)
KthSmallest(S, k) == CHOOSE i \in S : Cardinality({j \in S : j < i}) = k - 1

(* the request did not produce a JSON array *)
AIFailed ==
    \/ ~ apiKey
    \/ args.outcome.kind \in {"reject", "status", "nocontent"}
    \/ args.outcome.text \in UnparsableTexts

NonBlank(q) == \E i \in 1..Len(q) : CharAt(q, i) # " "

(* C10: when the AI call fails, the query is non-blank and the data non-empty,
   searchData returns source 'local' and, as results, the first at most 20
   records of the data, in data order, whose JSON text contains the query
   case-insensitively. *)
C10_FallbackIsLocalSearch ==
    (last = "searchData" /\ AIFailed /\ NonBlank(args.query) /\ args.data # <<>>) =>
        LET M == {i \in 1..Len(args.data) :
                     ContainsIgnoringCase(JSONstringify(args.data[i]), args.query)}
            n == IF Cardinality(M) < 20 THEN Cardinality(M) ELSE 20
        IN /\ ret.source = "local"
           /\ Len(ret.results) = n
           /\ \A k \in 1..n : ret.results[k] = args.data[KthSmallest(M, k)]

C10_Witness ==
    /\ last = "searchData"
    /\ AIFailed
    /\ args.query = "ACME"
    /\ Len(args.data) = MaxData
    /\ "WorkerID" \in DOMAIN args.data[1]
    /\ ret.source = "local"
    /\ Len(ret.results) = 20
    /\ ret.results[1] = args.data[2]
    /\ ret.results[20] = args.data[21]


----------------------------------------------------------------------------
(* The component: derived values *)

totalRecords == Len(clients) + Len(workers) + Len(tasks)
errorCount == Cardinality({k \in 1..Len(errors) : errors[k].type = "error"})
warningCount == Cardinality({k \in 1..Len(errors) : errors[k].type = "warning"})

(* the Valid Records figure of the validation summary:
   totalRecords - errors.length *)
validRecordsShown(total, errs) == total - Len(errs)

(* Math.round of the quotient num / den, den positive: the nearest integer,
   halves upwards *)
MathRound(num, den) == (2 * num + den) \div (2 * den)

(* mutant: the result is not clamped from below *)
calculateDataQualityUnclamped(total, errs, warns) ==
    IF total = 0 THEN 100
    ELSE LET validRecords == total - errs
             baseQuality == Max({0, validRecords * 100})
             warningPenalty == warns * 10
         IN Min({100, MathRound(baseQuality - warningPenalty, total)})

(* calculateDataQuality on the three counts; baseQuality and warningPenalty
   are kept as numerators over the total *)
calculateDataQuality(total, errs, warns) ==
    IF total = 0 THEN 100
    ELSE LET validRecords == total - errs
             baseQuality == Max({0, validRecords * 100})
             warningPenalty == warns * 10
         IN Max({0, Min({100, MathRound(baseQuality - warningPenalty, total)})})

----------------------------------------------------------------------------
(* calculateDataQuality as a function of the three counts.  Up to MaxCount + 1
   records a quotient ends in one half only over 4 or 8 records, where the
   floating-point quotients are exact. *)

MaxCount == 6

InitQuality ==
    /\ UIInit
    /\ apiKey = FALSE
    /\ last = "init"
    /\ ret = <<>>
    /\ \E total \in 0..MaxCount : \E errs \in 0..MaxCount : \E warns \in 0..MaxCount :
          args = [fn |-> "calculateDataQuality", totalRecords |-> total,
                  errorCount |-> errs, warningCount |-> warns]

CallCalculateDataQuality ==
    /\ last = "init"
    /\ args.fn = "calculateDataQuality"
    /\ ret' = calculateDataQuality(args.totalRecords, args.errorCount, args.warningCount)
    /\ last' = "calculateDataQuality"
    /\ UNCHANGED <<uiVars, args>>

NextQuality == CallCalculateDataQuality

SpecQuality == InitQuality /\ [][NextQuality]_vars


Tabs == {"upload", "data", "rules", "validate", "export"}

(* the disabled attribute of the navigation buttons *)
TabDisabled(tab) ==
    CASE tab = "upload" -> FALSE
      [] tab = "export" -> totalRecords = 0 \/ errorCount > 0
      [] OTHER -> totalRecords = 0

(* the export button is shown on the Export tab and disabled while errorCount > 0 *)
ExportEnabled == activeTab = "export" /\ ~ (errorCount > 0)

(* the table of the Data tab *)
currentData == IF dataTab = "clients" THEN clients
               ELSE IF dataTab = "workers" THEN workers ELSE tasks
currentKey == IF dataTab = "clients" THEN "ClientID"
              ELSE IF dataTab = "workers" THEN "WorkerID" ELSE "TaskID"

----------------------------------------------------------------------------
(* Field values.  The records keep an ID, name, group or category as a
   string and a list of IDs or skills as a sequence of strings; every other
   field is a JavaScript value. *)

StringFields == {"ClientID", "ClientName", "GroupTag", "WorkerID", "WorkerName",
                 "WorkerGroup", "TaskID", "TaskName", "Category"}
StringListFields == {"RequestedTaskIDs", "Skills", "RequiredSkills"}
SlotFields == {"AvailableSlots", "PreferredPhases"}
NumericFields == {"PriorityLevel", "QualificationLevel", "Duration", "MaxLoadPerPhase",
                  "MaxConcurrent"}

(* row[key] as a JavaScript value *)
CellValue(row, field) ==
    IF field \in StringFields THEN Str(row[field])
    ELSE IF field \in StringListFields THEN Strs(row[field])
    ELSE row[field]

(* { ...record, [field]: value }; a field the record lacks is added *)
WithField(record, field, value) ==
    IF field \notin DOMAIN record THEN (field :> value) @@ record
    ELSE IF field \in StringFields THEN [record EXCEPT ![field] = JsString(value)]
    ELSE IF field \in StringListFields THEN [record EXCEPT ![field] = value.l]
    ELSE [record EXCEPT ![field] = value]

(* normalizeFieldValue of applyCorrection *)
normalizeCorrectionValue(field, value) ==
    IF field \in StringListFields
    THEN IF value.t \in {"array", "strings"} THEN value
         ELSE IF value.t = "string" THEN Strs(splitTrimmed(value.s))
         ELSE Strs(<<>>)
    ELSE IF field \in SlotFields
    THEN IF value.t \in {"array", "strings"} THEN value
         ELSE IF value.t = "string"
         THEN LET r == JSONparse(value.s)
              IN IF r.threw THEN Arr(splitInts(value.s)) ELSE r.value
         ELSE Arr(<<>>)
    ELSE value

(* normalizeFieldValue of handleCellEdit: as above, and a numeric field is
   parsed, 1 standing in for NaN *)
normalizeFieldValue(field, value) ==
    IF field \in StringListFields
    THEN IF value.t \in {"array", "strings"} THEN value
         ELSE IF value.t = "string" THEN Strs(splitTrimmed(value.s))
         ELSE Strs(<<>>)
    ELSE IF field \in SlotFields
    THEN IF value.t \in {"array", "strings"} THEN value
         ELSE IF value.t = "string"
         THEN LET r == JSONparse(value.s)
              IN IF r.threw THEN Arr(splitInts(value.s)) ELSE r.value
         ELSE Arr(<<>>)
    ELSE IF field \in NumericFields
    THEN LET numValue == parseInt(value) IN IF numValue.t = "NaN" THEN Num(1) ELSE numValue
    ELSE value

(* the if / else-if chain of handleCellEdit and applyCorrection: the first
   collection holding a record with the ID is mapped, every record with that
   ID receiving the value *)
applyToEntity(cs, ws, ts, entityId, field, value) ==
    IF \E i \in 1..Len(cs) : cs[i].ClientID = entityId
    THEN [clients |-> [i \in 1..Len(cs) |->
                          IF cs[i].ClientID = entityId
                          THEN WithField(cs[i], field, value) ELSE cs[i]],
          workers |-> ws, tasks |-> ts]
    ELSE IF \E i \in 1..Len(ws) : ws[i].WorkerID = entityId
    THEN [clients |-> cs,
          workers |-> [i \in 1..Len(ws) |->
                          IF ws[i].WorkerID = entityId
                          THEN WithField(ws[i], field, value) ELSE ws[i]],
          tasks |-> ts]
    ELSE IF \E i \in 1..Len(ts) : ts[i].TaskID = entityId
    THEN [clients |-> cs, workers |-> ws,
          tasks |-> [i \in 1..Len(ts) |->
                        IF ts[i].TaskID = entityId
                        THEN WithField(ts[i], field, value) ELSE ts[i]]]
    ELSE [clients |-> cs, workers |-> ws, tasks |-> ts]

(* suggestCorrections: the fallback of its catch block *)
fallbackCorrections(errs) ==
    [i \in 1..Len(errs) |->
        [entityId |-> errs[i].entityId,
         field |-> IF errs[i].field = "" THEN "unknown" ELSE errs[i].field,
         currentValue |-> Str("unknown"),
         suggestedValue |-> Str(IF errs[i].suggestion = "" THEN "Fix manually"
                                ELSE errs[i].suggestion),
         reason |-> errs[i].message]]

(* suggestCorrections.  outcome.kind "corrections": the response text parses
   to the array outcome.corrections; "unparsable": it holds no JSON array; the
   other kinds are those of generateContent, whose two fixed replies are not
   JSON either. *)
suggestCorrections(errs, hasKey, outcome) ==
    IF Len(errs) = 0 THEN <<>>
    ELSE IF hasKey /\ outcome.kind = "corrections" THEN outcome.corrections
    ELSE fallbackCorrections(errs)

(* what the service proposes for an error when it answers *)
AIFix(e) ==
    [entityId |-> e.entityId, field |-> e.field, currentValue |-> Str("unknown"),
     suggestedValue |->
        CASE e.field \in {"PriorityLevel", "QualificationLevel"} -> Num(3)
          [] e.field = "Duration" -> Num(1)
          [] e.field = "RequestedTaskIDs" -> Strs(<<>>)
          [] OTHER -> Str(e.entityId \o "_updated"),
     reason |-> e.message]

CorrectionOutcomes(errs) ==
    {[kind |-> k, corrections |-> <<>>] : k \in {"reject", "unparsable"}}
    \cup {[kind |-> "corrections", corrections |-> sliceTo([i \in 1..Len(errs) |-> AIFix(errs[i])], n)]
            : n \in {1, Len(errs)}}

(* the objects a response to convertToRule's prompt describes *)
RuleObjects ==
    {[type |-> "coRun", name |-> "Pair", description |-> "T1 with T2", config |-> "{}"],
     [type |-> "loadLimit", name |-> "Cap", description |-> "max 2", config |-> "{}"]}

RuleJSON(o) ==
    "{\"type\":" \o JSONquote(o.type) \o ",\"name\":" \o JSONquote(o.name)
    \o ",\"description\":" \o JSONquote(o.description)
    \o ",\"config\":" \o o.config \o "}"

(* JSON.parse of a response to convertToRule: one of RuleObjects when the
   text is its JSON text, otherwise as JSONparse *)
JSONparseRule(text) ==
    IF \E o \in RuleObjects : RuleJSON(o) = trim(text)
    THEN [threw |-> FALSE, value |-> CHOOSE o \in RuleObjects : RuleJSON(o) = trim(text),
          isObject |-> TRUE]
    ELSE LET r == JSONparse(text)
         IN [threw |-> r.threw, value |-> r.value, isObject |-> FALSE]

(* convertToRule, t being Date.now().  The spread of a parsed number or of an
   empty object adds no property; the spread of a parsed array adds its
   elements under their indices (items). *)
convertToRule(description, hasKey, outcome, t) ==
    LET response == generateContent(hasKey, outcome)
        parsed == JSONparseRule(stripFences(response))
    IN IF parsed.threw
       THEN [id |-> t, type |-> "custom", name |-> "Custom Rule",
             description |-> description, config |-> "{}", active |-> TRUE]
       ELSE IF parsed.isObject
       THEN [id |-> t, type |-> parsed.value.type, name |-> parsed.value.name,
             description |-> parsed.value.description, config |-> parsed.value.config,
             active |-> TRUE]
       ELSE IF parsed.value.t = "array" /\ parsed.value.a # <<>>
       THEN [id |-> t, active |-> TRUE, items |-> parsed.value.a]
       ELSE [id |-> t, active |-> TRUE]

(* the outcomes of a request made for convertToRule *)
RuleOutcomes ==
    {[kind |-> k, text |-> ""] : k \in {"reject", "status", "nocontent"}}
    \cup {[kind |-> "text", text |-> x] :
             x \in {"not json", "5"} \cup {RuleJSON(o) : o \in RuleObjects}
                  \cup {Fence \o "json" \o RuleJSON(o) \o Fence : o \in RuleObjects}}


----------------------------------------------------------------------------
(* The methods of GeminiAI as processes: pc is the position of the method
   under call, requests counts its calls of fetch. *)

MaxRequests == 2

NoRequest == [kind |-> "none", text |-> ""]

AIErrors == validateData(<<MkClient("C1", Num(9), <<"T1">>)>>, <<>>, <<>>)

AICalls ==
    {[fn |-> "generateContent"]}
    \cup {[fn |-> "searchData", query |-> q, data |-> [i \in 1..n |-> DataItem("mixed", i)]] :
             q \in {"", " ", "acme", "Bolt"}, n \in 0..2}
    \cup {[description |-> d, fn |-> "convertToRule"] : d \in {"T1 with T2"}}
    \cup {[errors |-> e, fn |-> "suggestCorrections"] : e \in {<<>>, AIErrors}}

(* the outcomes a request of the method can have *)
AIOutcomes(call) ==
    CASE call.fn = "searchData" -> Outcomes(call.data)
      [] call.fn = "convertToRule" -> RuleOutcomes
      [] call.fn = "suggestCorrections" -> CorrectionOutcomes(call.errors)
      [] OTHER -> Outcomes(<<>>)

(* what the method returns, given the outcome of its request *)
AIResult(call, hasKey, outcome, t) ==
    CASE call.fn = "searchData" -> searchData(call.query, call.data, hasKey, outcome)
      [] call.fn = "convertToRule" -> convertToRule(call.description, hasKey, outcome, t)
      [] call.fn = "suggestCorrections" -> suggestCorrections(call.errors, hasKey, outcome)
      [] OTHER -> generateContent(hasKey, outcome)

(* searchData and suggestCorrections return before calling generateContent *)
ReturnsEarly(call) ==
    \/ call.fn = "searchData" /\ (trim(call.query) = "" \/ Len(call.data) = 0)
    \/ call.fn = "suggestCorrections" /\ Len(call.errors) = 0

InitAI ==
    /\ UIInit
    /\ apiKey \in BOOLEAN
    /\ last = "init"
    /\ ret = <<>>
    /\ args \in AICalls

(* entry of the method, up to its call of generateContent *)
AIEnter ==
    /\ pc = "idle"
    /\ IF ReturnsEarly(args)
       THEN /\ pc' = "returned"
            /\ ret' = [outcome |-> NoRequest, result |-> AIResult(args, apiKey, NoRequest, now)]
       ELSE /\ pc' = "generateContent"
            /\ UNCHANGED ret
    /\ last' = "enter"
    /\ UNCHANGED <<activeTab, dataTab, clients, workers, tasks, errors, aiCorrections,
                   isProcessing, isGeneratingFixes, apiKey, inflight, timers, nops, args,
                   ruleVars, searchVars, requests>>

(* generateContent without a key: the fixed reply, no request *)
AINoKey ==
    /\ pc = "generateContent"
    /\ ~ apiKey
    /\ pc' = "responded"
    /\ ret' = [outcome |-> NoRequest]
    /\ last' = "noKey"
    /\ UNCHANGED <<activeTab, dataTab, clients, workers, tasks, errors, aiCorrections,
                   isProcessing, isGeneratingFixes, apiKey, inflight, timers, nops, args,
                   ruleVars, searchVars, requests>>

(* generateContent with a key: fetch *)
AIFetch ==
    /\ pc = "generateContent"
    /\ apiKey
    /\ requests < MaxRequests
    /\ requests' = requests + 1
    /\ pc' = "fetching"
    /\ last' = "fetch"
    /\ UNCHANGED <<activeTab, dataTab, clients, workers, tasks, errors, aiCorrections,
                   isProcessing, isGeneratingFixes, apiKey, inflight, timers, nops, fnVars,
                   ruleVars, searchVars>>

(* mutant: a failed request is made again *)
AfterFetchRetry(outcome) ==
    IF outcome.kind \in {"reject", "status", "nocontent"} THEN "generateContent"
    ELSE "responded"

(* where generateContent continues when its request has settled: the try
   block returns the text, the catch block the fixed reply *)
AfterFetch(outcome) == "responded"

AIFetchSettled(outcome) ==
    /\ pc = "fetching"
    /\ pc' = AfterFetch(outcome)
    /\ ret' = [outcome |-> outcome]
    /\ last' = "fetchSettled"
    /\ UNCHANGED <<activeTab, dataTab, clients, workers, tasks, errors, aiCorrections,
                   isProcessing, isGeneratingFixes, apiKey, inflight, timers, nops, args,
                   ruleVars, searchVars, requests>>

(* the rest of the method, from the reply of generateContent to its return *)
AIReturn ==
    /\ pc = "responded"
    /\ pc' = "returned"
    /\ ret' = [outcome |-> ret.outcome, result |-> AIResult(args, apiKey, ret.outcome, now)]
    /\ last' = "return"
    /\ UNCHANGED <<activeTab, dataTab, clients, workers, tasks, errors, aiCorrections,
                   isProcessing, isGeneratingFixes, apiKey, inflight, timers, nops, args,
                   ruleVars, searchVars, requests>>

NextAI ==
    \/ AIEnter
    \/ AINoKey
    \/ AIFetch
    \/ \E outcome \in AIOutcomes(args) : AIFetchSettled(outcome)
    \/ AIReturn

SpecAI == InitAI /\ [][NextAI]_vars

(* C11: an invocation of generateContent, searchData, convertToRule or
   suggestCorrections makes at most one HTTP request, and none when the API
   key is not configured. *)
C11_AtMostOneRequest ==
    /\ requests <= 1
    /\ (~ apiKey => requests = 0)

(* a search whose request failed has returned, having made one request *)
C11_Witness ==
    /\ pc = "returned"
    /\ args.fn = "searchData"
    /\ ret.outcome.kind = "status"
    /\ ret.result.source = "local"
    /\ requests = 1


----------------------------------------------------------------------------
(* The component: handlers.  A handler runs with the state of the render it
   was created in; what it awaits or schedules keeps that state. *)

MaxOps == 3

UploadValidationDelay == 1000
EditValidationDelay == 100

(* file.name.split('.').pop()?.toLowerCase() *)
extension(name) == LET parts == split(name, ".") IN toLowerCase(parts[Len(parts)])

(* a file: its name, whether the parser delivers its rows, and the rows *)
File(name, ok, rows) == [name |-> name, ok |-> ok, rows |-> rows]

FileInputs(type) ==
    CASE type = "clients" ->
            {File("clients.CSV", TRUE, <<RawClient(Str("C1"), Str("3"), Str("T1"))>>),
             File("clients2.csv", TRUE,
                  <<RawClient(Str("C1"), Str("9"), Undefined),
                    RawClient(Str("C1"), Str("abc"), Str("T1, T9"))>>),
             File("clients.xlsx", TRUE, <<RawClient(Str("C1"), Num(2), Num(7))>>)}
      [] type = "workers" ->
            {File("workers.csv", TRUE, <<RawWorker(Str("W1"), Str("0"))>>),
             File("notes.txt", TRUE, <<>>)}
      [] OTHER ->
            {File("tasks.xls", TRUE, <<RawTask(Str("T1"), Num(2))>>),
             File("empty.csv", TRUE, <<>>),
             File("broken.csv", FALSE, <<>>)}

EntityTypes == {"clients", "workers", "tasks"}

(* a file whose name has no dot, picked with the file dialog's filter off *)
NoDotFiles == {File("xls", TRUE, <<>>)}

(* accept=".csv,.xlsx,.xls": the name ends with one of the suffixes, in either case *)
Accepted(name) ==
    \E suffix \in {".csv", ".xlsx", ".xls"} : endsWith(toLowerCase(name), suffix)

Closure == [clients |-> clients, workers |-> workers, tasks |-> tasks]

RemoveAt(seq, k) == SubSeq(seq, 1, k - 1) \o SubSeq(seq, k + 1, Len(seq))

(* onClick of a navigation button *)
SetActiveTab(tab) ==
    /\ ~ TabDisabled(tab)
    /\ activeTab # tab
    /\ activeTab' = tab
    /\ last' = "setActiveTab"
    /\ UNCHANGED <<dataTab, clients, workers, tasks, errors, aiCorrections, isProcessing,
                   isGeneratingFixes, apiKey, inflight, timers, nops, fnVars>>
    /\ UNCHANGED extVars

(* onClick of a data category button *)
SetDataTab(tab) ==
    /\ activeTab = "data"
    /\ dataTab # tab
    /\ dataTab' = tab
    /\ last' = "setDataTab"
    /\ UNCHANGED <<activeTab, clients, workers, tasks, errors, aiCorrections,
                   isProcessing, isGeneratingFixes, apiKey, inflight, timers, nops,
                   fnVars>>
    /\ UNCHANGED extVars

(* handleFileUpload up to its await: an unsupported extension throws into the
   catch block, otherwise the parser is started *)
HandleFileUpload(file, type) ==
    /\ activeTab = "upload"
    /\ nops < MaxOps
    /\ nops' = nops + 1
    /\ IF extension(file.name) \in {"csv", "xlsx", "xls"}
       THEN /\ isProcessing' = TRUE
            /\ inflight' = Append(inflight, [type |-> type, file |-> file, op |-> "parse",
                                             closure |-> Closure])
       ELSE /\ isProcessing' = FALSE
            /\ UNCHANGED inflight
    /\ last' = "handleFileUpload"
    /\ UNCHANGED <<activeTab, dataTab, clients, workers, tasks, errors, aiCorrections,
                   isGeneratingFixes, apiKey, timers, fnVars>>
    /\ UNCHANGED extVars

(* handleFileUpload after the await: normalizeData, the setter of the uploaded
   type, and the validation scheduled with the closure of the call *)
ParseResolved(k) ==
    /\ k \in 1..Len(inflight)
    /\ inflight[k].op = "parse"
    /\ inflight[k].file.ok
    /\ LET p == inflight[k]
           normalizedData == normalizeData(p.file.rows, p.type)
       IN IF normalizedData.threw
          THEN /\ isProcessing' = FALSE
               /\ UNCHANGED <<clients, workers, tasks, timers>>
          ELSE /\ clients' = IF p.type = "clients" THEN normalizedData.value ELSE clients
               /\ workers' = IF p.type = "workers" THEN normalizedData.value ELSE workers
               /\ tasks' = IF p.type = "tasks" THEN normalizedData.value ELSE tasks
               /\ timers' = Append(timers,
                     [clients |-> IF p.type = "clients" THEN normalizedData.value
                                  ELSE p.closure.clients,
                      workers |-> IF p.type = "workers" THEN normalizedData.value
                                  ELSE p.closure.workers,
                      tasks |-> IF p.type = "tasks" THEN normalizedData.value
                                ELSE p.closure.tasks,
                      upload |-> TRUE, delay |-> UploadValidationDelay])
               /\ UNCHANGED isProcessing
    /\ inflight' = RemoveAt(inflight, k)
    /\ last' = "parseResolved"
    /\ UNCHANGED <<activeTab, dataTab, errors, aiCorrections, isGeneratingFixes, apiKey,
                   nops, fnVars>>
    /\ UNCHANGED extVars

(* the parser rejects: the catch block of handleFileUpload *)
ParseRejected(k) ==
    /\ k \in 1..Len(inflight)
    /\ inflight[k].op = "parse"
    /\ ~ inflight[k].file.ok
    /\ isProcessing' = FALSE
    /\ inflight' = RemoveAt(inflight, k)
    /\ last' = "parseRejected"
    /\ UNCHANGED <<activeTab, dataTab, clients, workers, tasks, errors, aiCorrections,
                   isGeneratingFixes, apiKey, timers, nops, fnVars>>
    /\ UNCHANGED extVars

(* a spreadsheet the FileReader fails to read, or XLSX.read fails to parse *)
UnreadableFiles == {File("locked.xlsx", FALSE, <<>>)}

(* parseExcel sets reader.onload only: when the read fails, the error event
   finds no handler and the promise handleFileUpload awaits stays pending *)
ReadFailed(k) ==
    /\ k \in 1..Len(inflight)
    /\ inflight[k].op = "parse"
    /\ ~ inflight[k].file.ok
    /\ extension(inflight[k].file.name) \in {"xlsx", "xls"}
    /\ inflight' = [inflight EXCEPT ![k].op = "readError"]
    /\ last' = "readFailed"
    /\ UNCHANGED <<activeTab, dataTab, clients, workers, tasks, errors, aiCorrections,
                   isProcessing, isGeneratingFixes, apiKey, timers, nops, fnVars>>
    /\ UNCHANGED extVars

(* the rows Papa.parse delivers for the three sample files *)
SampleRows ==
    [clients |-> <<RawClient(Str("C1"), Str("3"), Str("T1"))>>,
     workers |-> <<RawWorker(Str("W1"), Str("3"))>>,
     tasks |-> <<RawTask(Str("T1"), Str("2"))>>]

(* loadSampleData up to its await; the button is shown on the Data tab while
   no record is stored and is disabled while isProcessing *)
LoadSampleData ==
    /\ activeTab = "data"
    /\ totalRecords = 0
    /\ ~ isProcessing
    /\ nops < MaxOps
    /\ nops' = nops + 1
    /\ isProcessing' = TRUE
    /\ inflight' = Append(inflight, [op |-> "sample"])
    /\ last' = "loadSampleData"
    /\ UNCHANGED <<activeTab, dataTab, clients, workers, tasks, errors, aiCorrections,
                   isGeneratingFixes, apiKey, timers, fnVars>>
    /\ UNCHANGED extVars

(* loadSampleData after its awaits: the three lists are stored and the
   validation of the three is scheduled *)
SampleResolved(k) ==
    /\ k \in 1..Len(inflight)
    /\ inflight[k].op = "sample"
    /\ LET normalizedClients == normalizeData(SampleRows.clients, "clients")
           normalizedWorkers == normalizeData(SampleRows.workers, "workers")
           normalizedTasks == normalizeData(SampleRows.tasks, "tasks")
       IN IF normalizedClients.threw \/ normalizedWorkers.threw \/ normalizedTasks.threw
          THEN /\ isProcessing' = FALSE
               /\ UNCHANGED <<clients, workers, tasks, timers>>
          ELSE /\ clients' = normalizedClients.value
               /\ workers' = normalizedWorkers.value
               /\ tasks' = normalizedTasks.value
               /\ timers' = Append(timers,
                     [clients |-> normalizedClients.value,
                      workers |-> normalizedWorkers.value,
                      tasks |-> normalizedTasks.value,
                      upload |-> TRUE, delay |-> UploadValidationDelay])
               /\ UNCHANGED isProcessing
    /\ inflight' = RemoveAt(inflight, k)
    /\ last' = "sampleResolved"
    /\ UNCHANGED <<activeTab, dataTab, errors, aiCorrections, isGeneratingFixes, apiKey,
                   nops, fnVars>>
    /\ UNCHANGED extVars

(* a fetch of loadSampleData rejects: its catch block *)
SampleRejected(k) ==
    /\ k \in 1..Len(inflight)
    /\ inflight[k].op = "sample"
    /\ isProcessing' = FALSE
    /\ inflight' = RemoveAt(inflight, k)
    /\ last' = "sampleRejected"
    /\ UNCHANGED <<activeTab, dataTab, clients, workers, tasks, errors, aiCorrections,
                   isGeneratingFixes, apiKey, timers, nops, fnVars>>
    /\ UNCHANGED extVars

(* a timer runs once every timer scheduled before it with no longer a delay has run *)
CanFire(k) == \A j \in 1..(k - 1) : timers[j].delay > timers[k].delay

(* the setTimeout callback of handleFileUpload or handleCellEdit *)
TimerFired(k) ==
    /\ k \in 1..Len(timers)
    /\ CanFire(k)
    /\ errors' = validateData(timers[k].clients, timers[k].workers, timers[k].tasks)
    /\ isProcessing' = IF timers[k].upload THEN FALSE ELSE isProcessing
    /\ timers' = RemoveAt(timers, k)
    /\ last' = IF ~ timers[k].upload /\ last = "handleCellEdit" /\ k = Len(timers)
               THEN "editValidated" ELSE "timerFired"
    /\ UNCHANGED <<activeTab, dataTab, clients, workers, tasks, aiCorrections,
                   isGeneratingFixes, apiKey, inflight, nops, fnVars>>
    /\ UNCHANGED extVars

(* the fields and texts typed into the cell editor *)
EditTexts(field) ==
    CASE field = "ClientID" -> {"C2"}
      [] field = "PriorityLevel" -> {"9", "abc"}
      [] field = "RequestedTaskIDs" -> {"T1, T9"}
      [] field = "QualificationLevel" -> {"3"}
      [] field = "TaskID" -> {"T9"}
      [] field = "Duration" -> {"0"}
      [] OTHER -> {}

(* editingCell.value when the editor is saved: a typed text, or the value of
   the cell when nothing was typed *)
EditValues(row, field) ==
    {Str(text) : text \in EditTexts(field)}
    \cup (IF field \in {"PriorityLevel", "RequestedTaskIDs"}
          THEN {CellValue(row, field)} ELSE {})

(* handleCellEdit(row[currentKey], key, editingCell.value) for row i of the
   table: the value is the typed text, or the cell's own value when nothing
   was typed *)
HandleCellEdit(i, field, newValue) ==
    /\ activeTab = "data"
    /\ nops < MaxOps
    /\ i \in 1..Len(currentData)
    /\ field \in DOMAIN currentData[i]
    /\ LET entityId == currentData[i][currentKey]
           new == applyToEntity(clients, workers, tasks, entityId, field,
                                normalizeFieldValue(field, newValue))
       IN /\ clients' = new.clients
          /\ workers' = new.workers
          /\ tasks' = new.tasks
    /\ timers' = Append(timers, [clients |-> clients, workers |-> workers,
                                 tasks |-> tasks, upload |-> FALSE,
                                 delay |-> EditValidationDelay])
    /\ nops' = nops + 1
    /\ last' = "handleCellEdit"
    /\ UNCHANGED <<activeTab, dataTab, errors, aiCorrections, isProcessing,
                   isGeneratingFixes, apiKey, inflight, fnVars>>
    /\ UNCHANGED extVars

(* generateAICorrections up to its await *)
GenerateAICorrections ==
    /\ activeTab = "validate"
    /\ Len(errors) > 0
    /\ ~ isGeneratingFixes
    /\ nops < MaxOps
    /\ nops' = nops + 1
    /\ isGeneratingFixes' = TRUE
    /\ inflight' = Append(inflight, [errors |-> errors, op |-> "corrections"])
    /\ last' = "generateAICorrections"
    /\ UNCHANGED <<activeTab, dataTab, clients, workers, tasks, errors, aiCorrections,
                   isProcessing, apiKey, timers, fnVars>>
    /\ UNCHANGED extVars

(* generateAICorrections after the await *)
CorrectionsSettled(k, outcome) ==
    /\ k \in 1..Len(inflight)
    /\ inflight[k].op = "corrections"
    /\ ~ apiKey => outcome.kind = "reject"
    /\ aiCorrections' = suggestCorrections(inflight[k].errors, apiKey, outcome)
    /\ isGeneratingFixes' = FALSE
    /\ inflight' = RemoveAt(inflight, k)
    /\ last' = "correctionsSettled"
    /\ UNCHANGED <<activeTab, dataTab, clients, workers, tasks, errors, isProcessing,
                   apiKey, timers, nops, fnVars>>
    /\ UNCHANGED extVars

(* applyCorrection(correction) for the k-th listed correction *)
ApplyCorrection(k) ==
    /\ activeTab = "validate"
    /\ Len(errors) > 0
    /\ ~ isGeneratingFixes
    /\ k \in 1..Len(aiCorrections)
    /\ nops < MaxOps
    /\ nops' = nops + 1
    /\ LET correction == aiCorrections[k]
           new == applyToEntity(clients, workers, tasks, correction.entityId,
                                correction.field,
                                normalizeCorrectionValue(correction.field,
                                                         correction.suggestedValue))
       IN /\ clients' = new.clients
          /\ workers' = new.workers
          /\ tasks' = new.tasks
    /\ errors' = validateData(clients, workers, tasks)
    /\ last' = "applyCorrection"
    /\ UNCHANGED <<activeTab, dataTab, aiCorrections, isProcessing, isGeneratingFixes,
                   apiKey, inflight, timers, fnVars>>
    /\ UNCHANGED extVars

(* exportData: two downloads, no state change *)
ExportData ==
    /\ ExportEnabled
    /\ last # "exportData"
    /\ last' = "exportData"
    /\ UNCHANGED <<uiVars, fnVars>>

----------------------------------------------------------------------------
(* The Rules tab: the rule builder, the priority weights, the rule list *)

MaxNow == 1

RuleTexts == {"", " ", "T1 with T2"}

WeightKeys ==
    {"priorityLevel", "taskFulfillment", "fairness", "workloadBalance", "skillMatch"}

(* the ends of the range slider *)
WeightInputs == {0, 50}

(* onChange of the rule builder's textarea *)
SetRuleDescription(text) ==
    /\ activeTab = "rules"
    /\ ruleDescription # text
    /\ ruleDescription' = text
    /\ last' = "setRuleDescription"
    /\ UNCHANGED <<activeTab, dataTab, clients, workers, tasks, errors, aiCorrections,
                   isProcessing, isGeneratingFixes, apiKey, inflight, timers, nops, fnVars,
                   rules, priorityWeights, now, searchVars, aiVars>>

(* onChange of a priority weight slider *)
SetPriorityWeights(key, value) ==
    /\ activeTab = "rules"
    /\ nops < MaxOps
    /\ priorityWeights[key] # value
    /\ nops' = nops + 1
    /\ priorityWeights' = [priorityWeights EXCEPT ![key] = value]
    /\ last' = "setPriorityWeights"
    /\ UNCHANGED <<activeTab, dataTab, clients, workers, tasks, errors, aiCorrections,
                   isProcessing, isGeneratingFixes, apiKey, inflight, timers, fnVars,
                   rules, ruleDescription, now, searchVars, aiVars>>

(* handleCreateRule up to its await; a blank description returns at once *)
HandleCreateRule ==
    /\ activeTab = "rules"
    /\ nops < MaxOps
    /\ nops' = nops + 1
    /\ inflight' = IF trim(ruleDescription) = "" THEN inflight
                   ELSE Append(inflight, [rules |-> rules, description |-> ruleDescription,
                                          op |-> "rule"])
    /\ last' = "handleCreateRule"
    /\ UNCHANGED <<activeTab, dataTab, clients, workers, tasks, errors, aiCorrections,
                   isProcessing, isGeneratingFixes, apiKey, timers, fnVars, ruleVars,
                   searchVars, aiVars>>

(* handleCreateRule after its await: the rule is appended to the rules of the
   render the handler was created in; t is Date.now() *)
RuleCreated(k, outcome, t) ==
    /\ k \in 1..Len(inflight)
    /\ inflight[k].op = "rule"
    /\ ~ apiKey => outcome.kind = "reject"
    /\ t >= now
    /\ now' = t
    /\ rules' = Append(inflight[k].rules,
                       convertToRule(inflight[k].description, apiKey, outcome, t))
    /\ ruleDescription' = ""
    /\ inflight' = RemoveAt(inflight, k)
    /\ last' = "ruleCreated"
    /\ UNCHANGED <<activeTab, dataTab, clients, workers, tasks, errors, aiCorrections,
                   isProcessing, isGeneratingFixes, apiKey, timers, nops, fnVars,
                   priorityWeights, searchVars, aiVars>>

(* mutant: the deletion also empties the task list *)
DeleteRuleResettingTasks(i) ==
    /\ activeTab = "rules"
    /\ i \in 1..Len(rules)
    /\ LET Kept(r) == r.id # rules[i].id IN rules' = SelectSeq(rules, Kept)
    /\ tasks' = <<>>
    /\ last' = "deleteRule"
    /\ UNCHANGED <<activeTab, dataTab, clients, workers, errors, aiCorrections,
                   isProcessing, isGeneratingFixes, apiKey, inflight, timers, nops, fnVars,
                   ruleDescription, priorityWeights, now, searchVars, aiVars>>

(* onClick of the delete button of the i-th listed rule *)
DeleteRule(i) ==
    /\ activeTab = "rules"
    /\ i \in 1..Len(rules)
    /\ LET Kept(r) == r.id # rules[i].id IN rules' = SelectSeq(rules, Kept)
    /\ last' = "deleteRule"
    /\ UNCHANGED <<activeTab, dataTab, clients, workers, tasks, errors, aiCorrections,
                   isProcessing, isGeneratingFixes, apiKey, inflight, timers, nops, fnVars,
                   ruleDescription, priorityWeights, now, searchVars, aiVars>>

----------------------------------------------------------------------------
(* The Data tab: the search box *)

(* the first index from i on that holds no white space; Len(s) + 1 if none *)
skipSpaces(s, i) == Min({j \in i..(Len(s) + 1) : j > Len(s) \/ ~ IsSpace(CharAt(s, j))})

(* searchLower.match of word, white space, one of > < =, white space and
   digits: the leftmost match, its operator and the number of its digits *)
matchComparison(s, word) ==
    LET Operator(p) == skipSpaces(s, p + Len(word))
        Number(p) == skipSpaces(s, Operator(p) + 1)
        Matches(p) == /\ SubSeq(s, p, p + Len(word) - 1) = word
                      /\ Operator(p) <= Len(s)
                      /\ CharAt(s, Operator(p)) \in {">", "<", "="}
                      /\ Number(p) <= Len(s)
                      /\ IsDigit(CharAt(s, Number(p)))
        at == {p \in 1..(Len(s) - Len(word) + 1) : Matches(p)}
    IN IF at = {} THEN [value |-> 0, found |-> FALSE, operator |-> ""]
       ELSE LET p == Min(at)
            IN [value |-> DigitsToNat(DigitPrefix(SubSeq(s, Number(p), Len(s))), 0),
                found |-> TRUE,
                operator |-> CharAt(s, Operator(p))]

(* searchLower.match of skill or skills, white space and the rest of the line:
   the leftmost match, its group trimmed.  The plural is tried first; when
   only white space follows, its last character is the group. *)
matchSkill(s) ==
    LET Rest(q) == skipSpaces(s, q)
        Fits(q) == /\ q <= Len(s)
                   /\ IsSpace(CharAt(s, q))
                   /\ (Rest(q) <= Len(s) \/ Rest(q) - q >= 2)
        Group(q) == IF Rest(q) <= Len(s) THEN SubSeq(s, Rest(q), Len(s)) ELSE " "
        Plural(p) == p + 5 <= Len(s) /\ CharAt(s, p + 5) = "s" /\ Fits(p + 6)
        Matches(p) == SubSeq(s, p, p + 4) = "skill" /\ (Plural(p) \/ Fits(p + 5))
        at == {p \in 1..(Len(s) - 4) : Matches(p)}
    IN IF at = {} THEN [text |-> "", found |-> FALSE]
       ELSE LET p == Min(at)
            IN [text |-> trim(Group(IF Plural(p) THEN p + 6 ELSE p + 5)), found |-> TRUE]

(* the switch on the operator, on parseInt of the field *)
compareField(v, operator, k) ==
    CASE operator = ">" -> JsGreater(parseInt(v), k)
      [] operator = "<" -> JsLess(parseInt(v), k)
      [] OTHER -> parseInt(v).t = "number" /\ parseInt(v).n = k

Has(item, key) == key \in DOMAIN item /\ item[key] # ""

Defined(item, key) == key \in DOMAIN item /\ item[key].t # "undefined"

SomeSkill(skills, requiredSkill) ==
    \E i \in 1..Len(skills) : includes(toLowerCase(skills[i]), requiredSkill)

(* the filter of handleSearchChange *)
matchesQuery(item, value) ==
    LET searchLower == toLowerCase(value)
        itemString == toLowerCase(JSONstringify(item))
        durationMatch == matchComparison(searchLower, "duration")
        priorityMatch == matchComparison(searchLower, "priority")
        skillMatch == matchSkill(searchLower)
    IN IF includes(itemString, searchLower) THEN TRUE
       ELSE IF Has(item, "TaskID") /\ Defined(item, "Duration") /\ durationMatch.found
       THEN compareField(item.Duration, durationMatch.operator, durationMatch.value)
       ELSE IF Has(item, "ClientID") /\ Defined(item, "PriorityLevel") /\ priorityMatch.found
       THEN compareField(item.PriorityLevel, priorityMatch.operator, priorityMatch.value)
       ELSE IF Has(item, "WorkerID") /\ "Skills" \in DOMAIN item /\ skillMatch.found
       THEN SomeSkill(item.Skills, skillMatch.text)
       ELSE IF Has(item, "TaskID") /\ "RequiredSkills" \in DOMAIN item /\ skillMatch.found
       THEN SomeSkill(item.RequiredSkills, skillMatch.text)
       ELSE FALSE

SearchChangeLimit == 10

(* [...clients, ...workers, ...tasks] *)
allData == clients \o workers \o tasks

SearchTexts == {"", " ", "t1", "duration > 1"}

(* the answers of the service to a search over the data *)
SearchOutcomes(data) ==
    {[kind |-> "status", text |-> ""]}
    \cup {[kind |-> "text", text |-> JSONstringifyList(l)] : l \in AnswerLists(data)}

(* onChange of the search box, which is disabled without a key *)
HandleSearchChange(value) ==
    /\ activeTab = "data"
    /\ apiKey
    /\ searchQuery' = value
    /\ IF trim(value) = ""
       THEN searchResults' = <<>> /\ searchSource' = "null"
       ELSE LET Matching(item) == matchesQuery(item, value)
            IN /\ searchResults' = sliceTo(SelectSeq(allData, Matching), SearchChangeLimit)
               /\ searchSource' = "local"
    /\ last' = "handleSearchChange"
    /\ UNCHANGED <<activeTab, dataTab, clients, workers, tasks, errors, aiCorrections,
                   isProcessing, isGeneratingFixes, apiKey, inflight, timers, nops, fnVars,
                   ruleVars, isSearching, aiVars>>

(* handleSearch up to its await, by the AI Search button, which is disabled
   while isSearching, or by the Enter key in the search box, which is not *)
HandleSearch(via) ==
    /\ activeTab = "data"
    /\ apiKey
    /\ via = "button" => ~ isSearching
    /\ nops < MaxOps
    /\ nops' = nops + 1
    /\ IF trim(searchQuery) = ""
       THEN /\ searchResults' = <<>>
            /\ searchSource' = "null"
            /\ UNCHANGED <<isSearching, inflight>>
       ELSE /\ isSearching' = TRUE
            /\ inflight' = Append(inflight, [query |-> searchQuery, data |-> allData,
                                             op |-> "search", via |-> via])
            /\ UNCHANGED <<searchResults, searchSource>>
    /\ last' = "handleSearch"
    /\ UNCHANGED <<activeTab, dataTab, clients, workers, tasks, errors, aiCorrections,
                   isProcessing, isGeneratingFixes, apiKey, timers, fnVars, ruleVars,
                   searchQuery, aiVars>>

(* handleSearch after its await: the results of the search it started *)
SearchSettled(k, outcome) ==
    /\ k \in 1..Len(inflight)
    /\ inflight[k].op = "search"
    /\ LET results == searchData(inflight[k].query, inflight[k].data, apiKey, outcome)
       IN /\ searchResults' = results.results
          /\ searchSource' = results.source
    /\ isSearching' = FALSE
    /\ inflight' = RemoveAt(inflight, k)
    /\ last' = "searchSettled"
    /\ UNCHANGED <<activeTab, dataTab, clients, workers, tasks, errors, aiCorrections,
                   isProcessing, isGeneratingFixes, apiKey, timers, nops, fnVars, ruleVars,
                   searchQuery, aiVars>>

(* onClick of the Clear button, shown while the query is not empty *)
ClearSearch ==
    /\ activeTab = "data"
    /\ searchQuery # ""
    /\ searchQuery' = ""
    /\ searchResults' = <<>>
    /\ searchSource' = "null"
    /\ last' = "clearSearch"
    /\ UNCHANGED <<activeTab, dataTab, clients, workers, tasks, errors, aiCorrections,
                   isProcessing, isGeneratingFixes, apiKey, inflight, timers, nops, fnVars,
                   ruleVars, isSearching, aiVars>>

Init ==
    /\ UIInit
    /\ apiKey \in BOOLEAN
    /\ last = "init"
    /\ args = NoArgs
    /\ ret = <<>>

Next ==
    \/ \E tab \in Tabs : SetActiveTab(tab)
    \/ \E tab \in EntityTypes : SetDataTab(tab)
    \/ \E type \in EntityTypes : \E file \in FileInputs(type) : HandleFileUpload(file, type)
    \/ \E k \in 1..Len(inflight) : ParseResolved(k)
    \/ \E k \in 1..Len(inflight) : ParseRejected(k)
    \/ \E k \in 1..Len(timers) : TimerFired(k)
    \/ \E i \in 1..Len(currentData) : \E field \in DOMAIN currentData[i] :
          \E newValue \in EditValues(currentData[i], field) :
             HandleCellEdit(i, field, newValue)
    \/ GenerateAICorrections
    \/ \E k \in 1..Len(inflight) :
          \E outcome \in CorrectionOutcomes(IF inflight[k].op = "corrections"
                                            THEN inflight[k].errors ELSE <<>>) :
             CorrectionsSettled(k, outcome)
    \/ \E k \in 1..Len(aiCorrections) : ApplyCorrection(k)
    \/ ExportData

Spec == Init /\ [][Next]_vars


(* uploads only: handleFileUpload, its parser and its timer *)
NextUpload ==
    \/ \E type \in EntityTypes : \E file \in FileInputs(type) \cup NoDotFiles :
          HandleFileUpload(file, type)
    \/ \E k \in 1..Len(inflight) : ParseResolved(k)
    \/ \E k \in 1..Len(inflight) : ParseRejected(k)
    \/ \E k \in 1..Len(timers) : TimerFired(k)

SpecUpload == Init /\ [][NextUpload]_vars

(* the Rules tab, with the uploads of task files that enable it *)
NextRules ==
    \/ \E tab \in {"upload", "rules"} : SetActiveTab(tab)
    \/ \E file \in FileInputs("tasks") : HandleFileUpload(file, "tasks")
    \/ \E k \in 1..Len(inflight) : ParseResolved(k)
    \/ \E k \in 1..Len(inflight) : ParseRejected(k)
    \/ \E k \in 1..Len(timers) : TimerFired(k)
    \/ \E text \in RuleTexts : SetRuleDescription(text)
    \/ \E key \in WeightKeys : \E value \in WeightInputs : SetPriorityWeights(key, value)
    \/ HandleCreateRule
    \/ \E k \in 1..Len(inflight) : \E outcome \in RuleOutcomes : \E t \in 0..MaxNow :
          RuleCreated(k, outcome, t)
    \/ \E i \in 1..Len(rules) : DeleteRule(i)

SpecRules == Init /\ [][NextRules]_vars

(* the search box of the Data tab, with the uploads of task files that enable it *)
NextSearchUI ==
    \/ \E tab \in {"upload", "data"} : SetActiveTab(tab)
    \/ \E file \in FileInputs("tasks") : HandleFileUpload(file, "tasks")
    \/ \E k \in 1..Len(inflight) : ParseResolved(k)
    \/ \E k \in 1..Len(inflight) : ParseRejected(k)
    \/ \E k \in 1..Len(timers) : TimerFired(k)
    \/ \E value \in SearchTexts : HandleSearchChange(value)
    \/ \E via \in {"button", "enter"} : HandleSearch(via)
    \/ \E k \in 1..Len(inflight) :
          /\ inflight[k].op = "search"
          /\ \E outcome \in SearchOutcomes(inflight[k].data) : SearchSettled(k, outcome)
    \/ ClearSearch

SpecSearchUI == Init /\ [][NextSearchUI]_vars

(* uploads and sample loads with their promises and timers.  A promise that
   can settle does settle and a timer that can run does run. *)
Settle ==
    \E k \in 1..Len(inflight) :
       \/ ParseResolved(k)
       \/ ParseRejected(k)
       \/ ReadFailed(k)
       \/ SampleResolved(k)
       \/ SampleRejected(k)

RunTimer == \E k \in 1..Len(timers) : TimerFired(k)

NextLoad ==
    \/ \E tab \in {"upload", "data"} : SetActiveTab(tab)
    \/ \E file \in FileInputs("tasks") \cup UnreadableFiles : HandleFileUpload(file, "tasks")
    \/ LoadSampleData
    \/ Settle
    \/ RunTimer

SpecLoad == Init /\ [][NextLoad]_vars /\ WF_vars(Settle) /\ WF_vars(RunTimer)

(* C1: whenever exportData can be triggered, at least one record is stored and
   validateData applied to the stored clients, workers and tasks returns no
   errors. *)
C1_ExportOnlyValidData ==
    ExportEnabled => (totalRecords > 0 /\ validateData(clients, workers, tasks) = <<>>)

(* C2: after a cell edit and its delayed re-validation, with no operation in
   between, the errors list equals validateData applied to the stored
   clients, workers and tasks. *)
C2_EditRevalidates ==
    last = "editValidated" => errors = validateData(clients, workers, tasks)

(* C3: after applyCorrection, the errors list equals validateData applied to
   the stored clients, workers and tasks. *)
C3_CorrectionRevalidates ==
    last = "applyCorrection" => errors = validateData(clients, workers, tasks)

(* C4: after any sequence of file uploads, once no parse and no validation is
   pending, the errors list equals validateData applied to the stored clients,
   workers and tasks. *)
C4_UploadsRevalidate ==
    (inflight = <<>> /\ timers = <<>>) => errors = validateData(clients, workers, tasks)

(* C12: changing a priority weight, creating a rule or deleting a rule leaves
   clients, workers, tasks and the errors list unchanged, and with them the
   result of validateData. *)
C12_RulesLeaveDataUnchanged ==
    [][last' \in {"setPriorityWeights", "handleCreateRule", "ruleCreated", "deleteRule"} =>
          /\ UNCHANGED <<clients, workers, tasks, errors>>
          /\ validateData(clients', workers', tasks') = validateData(clients, workers, tasks)
      ]_vars

(* a weight was changed, a rule created and then deleted, with a task stored *)
C12_Witness ==
    /\ last = "deleteRule"
    /\ rules = <<>>
    /\ now = 1
    /\ priorityWeights.fairness = 50
    /\ tasks # <<>>

(* C13: a handleCreateRule call with a non-blank description that completes
   appends exactly one rule to the rules list and keeps every rule that is in
   it; a call with a blank description changes nothing. *)
C13_CreateAppendsOneRule ==
    [][/\ last' = "ruleCreated" =>
             /\ Len(rules') = Len(rules) + 1
             /\ SubSeq(rules', 1, Len(rules)) = rules
       /\ (last' = "handleCreateRule" /\ trim(ruleDescription) = "") =>
             UNCHANGED <<rules, ruleDescription, inflight, clients, workers, tasks, errors>>
      ]_vars

(* C14: whenever the search query is empty or white space only, the search
   results are empty and the search source is null, also when an AI search
   started earlier completes after the search box has been cleared. *)
C14_BlankQueryMeansNoResults ==
    trim(searchQuery) = "" => (searchResults = <<>> /\ searchSource = "null")

(* C20: isSearching is true whenever at least one AI search started by
   handleSearch, by the button or by the Enter key, is still in flight. *)
C20_SearchingWhileInFlight ==
    (\E k \in 1..Len(inflight) : inflight[k].op = "search") => isSearching

(* C15: handleFileUpload accepts a file whose extension is csv, xlsx or xls in
   either case; for any other file name it leaves clients, workers, tasks and
   the errors unchanged, starts no parser and resets isProcessing to false. *)
C15_ExtensionDecidesUpload ==
    [][\A type \in EntityTypes : \A file \in FileInputs(type) \cup NoDotFiles :
          HandleFileUpload(file, type) =>
             IF Accepted(file.name)
             THEN /\ Len(inflight') = Len(inflight) + 1
                  /\ inflight'[Len(inflight')].file = file
                  /\ isProcessing'
             ELSE /\ UNCHANGED <<clients, workers, tasks, errors, inflight>>
                  /\ ~ isProcessing']_vars

(* C16: the data quality score is an integer from 0 to 100 for every record
   count, error count and warning count, more errors than records included,
   and is 100 when no records are loaded. *)
C16_QualityInRange ==
    last = "calculateDataQuality" =>
       /\ ret \in 0..100
       /\ args.totalRecords = 0 => ret = 100

C16_Witness ==
    /\ last = "calculateDataQuality"
    /\ args.totalRecords = 4
    /\ args.errorCount = 5
    /\ args.warningCount = 1
    /\ ret = 0

(* C17: suggestCorrections returns as many corrections as it was passed
   errors, from the response or from the fallback, and returns the empty list
   without a request when there are no errors. *)
C17_OneCorrectionPerError ==
    (pc = "returned" /\ args.fn = "suggestCorrections") =>
       /\ Len(ret.result) = Len(args.errors)
       /\ Len(args.errors) = 0 => requests = 0

(* C18: a cell edit on a row of the displayed collection changes only the
   edited field of that record; the other records of the collection and the
   records of the other two collections are unchanged, also when another
   record has the same ID. *)
C18_EditChangesOneCell ==
    [][last' = "handleCellEdit" =>
          \A i \in 1..Len(currentData) : \A field \in DOMAIN currentData[i] :
          \A newValue \in EditValues(currentData[i], field) :
             HandleCellEdit(i, field, newValue) =>
                /\ dataTab # "clients" => clients' = clients
                /\ dataTab # "workers" => workers' = workers
                /\ dataTab # "tasks" => tasks' = tasks
                /\ Len(currentData') = Len(currentData)
                /\ \A j \in 1..Len(currentData) : j # i => currentData'[j] = currentData[j]
                /\ \A f \in DOMAIN currentData[i] :
                      f # field => currentData'[i][f] = currentData[i][f]]_vars

(* the field is absent from the raw row, or is the empty string *)
Absent(cell) == cell.t = "undefined" \/ (cell.t = "string" /\ cell.s = "")

(* the normalized ID: the raw one, or the prefix with the 1-based row number *)
IdCarried(cell, out, prefix, i) ==
    out = IF Absent(cell) THEN prefix \o IntToString(i) ELSE JsString(cell)

(* the normalized number: the raw one, or 1 *)
NumberCarried(cell, out) == out = IF Absent(cell) THEN Num(1) ELSE ToNumber(cell)

(* C19: normalizeData returns one record per raw row, in row order, and puts a
   field's default (generated ID, 'Unknown', 1, 'Default', empty list) only
   where the raw field is absent or empty; a value present in the raw row, a
   numeric 0 included, is carried into the record. *)
C19_DefaultsOnlyWhenAbsent ==
    last = "normalizeData" =>
       /\ Len(ret.clients) = Len(args.clients)
       /\ Len(ret.workers) = Len(args.workers)
       /\ Len(ret.tasks) = Len(args.tasks)
       /\ \A i \in 1..Len(args.clients) :
             /\ IdCarried(args.clients[i].ClientID, ret.clients[i].ClientID, "C", i)
             /\ NumberCarried(args.clients[i].PriorityLevel, ret.clients[i].PriorityLevel)
             /\ ret.clients[i].ClientName = "Unknown"
             /\ ret.clients[i].GroupTag = "Default"
             /\ ret.clients[i].RequestedTaskIDs = <<>>
       /\ \A i \in 1..Len(args.workers) :
             /\ IdCarried(args.workers[i].WorkerID, ret.workers[i].WorkerID, "W", i)
             /\ NumberCarried(args.workers[i].QualificationLevel,
                              ret.workers[i].QualificationLevel)
             /\ ret.workers[i].MaxLoadPerPhase = Num(1)
       /\ \A i \in 1..Len(args.tasks) :
             /\ IdCarried(args.tasks[i].TaskID, ret.tasks[i].TaskID, "T", i)
             /\ NumberCarried(args.tasks[i].Duration, ret.tasks[i].Duration)
             /\ ret.tasks[i].Category = "General"

(* C21: every entry of the search results is a record currently stored in
   clients, workers or tasks, also after the records were replaced while the
   results are displayed and also when the results came from the AI. *)
C21_ResultsAreStoredRecords ==
    \A i \in 1..Len(searchResults) : \E j \in 1..Len(allData) : allData[j] = searchResults[i]

(* the records validateData reports no error for *)
FaultlessClients(cs, ts) ==
    {i \in 1..Len(cs) : /\ ~ SeenClientId(cs, i)
                        /\ ~ PriorityOutOfRange(cs[i])
                        /\ Elements(cs[i].RequestedTaskIDs) \subseteq TaskIdSet(ts)}

FaultlessWorkers(ws) ==
    {i \in 1..Len(ws) : ~ SeenWorkerId(ws, i) /\ ~ QualificationOutOfRange(ws[i])}

FaultlessTasks(ts) == {i \in 1..Len(ts) : ~ DurationOutOfRange(ts[i])}

(* C22: the valid-record count of the validation summary, the total of the
   records minus the length of the errors list, is never negative and is the
   number of records that have no validation error. *)
C22_ValidRecordsCount ==
    Validated =>
       LET total == Len(args.clients) + Len(args.workers) + Len(args.tasks)
           shown == validRecordsShown(total, ret)
       IN /\ shown >= 0
          /\ shown = Cardinality(FaultlessClients(args.clients, args.tasks))
                     + Cardinality(FaultlessWorkers(args.workers))
                     + Cardinality(FaultlessTasks(args.tasks))

(* the request of the call under way failed, or was not made for want of a key *)
RequestFailed ==
    /\ pc = "returned"
    /\ ~ ReturnsEarly(args)
    /\ (~ apiKey \/ ret.outcome.kind \in {"reject", "status", "nocontent"})

(* C23: no method of the AI client throws or rejects: generateContent returns
   'API key not configured' without a key and 'AI temporarily unavailable'
   when the request fails, answers with a non-OK status or without content;
   searchData, convertToRule and suggestCorrections then return their
   fallback value. *)
C23_FailuresGiveFallbacks ==
    RequestFailed =>
       CASE args.fn = "generateContent" ->
               ret.result = IF apiKey THEN "AI temporarily unavailable"
                            ELSE "API key not configured"
         [] args.fn = "searchData" ->
               ret.result = [results |-> localSearch(args.query, args.data), source |-> "local"]
         [] args.fn = "convertToRule" ->
               ret.result = [id |-> now, type |-> "custom", name |-> "Custom Rule",
                             description |-> args.description, config |-> "{}",
                             active |-> TRUE]
         [] OTHER -> ret.result = fallbackCorrections(args.errors)

C23_Witness ==
    /\ RequestFailed
    /\ apiKey
    /\ args.fn = "convertToRule"
    /\ ret.outcome.kind = "nocontent"
    /\ ret.result.name = "Custom Rule"

(* the fields of the record among the given ones hold integers *)
IntegerFields(record, fields) ==
    \A f \in fields \cap DOMAIN record : record[f].t = "number"

(* C24: PriorityLevel, QualificationLevel, MaxLoadPerPhase, Duration and
   MaxConcurrent of every stored record are integers, never NaN and never
   text, after any uploads, cell edits and applied corrections. *)
C24_NumericFieldsAreIntegers ==
    \A i \in 1..Len(allData) :
       IntegerFields(allData[i], {"PriorityLevel", "QualificationLevel", "MaxLoadPerPhase",
                                  "Duration", "MaxConcurrent"})

(* C25: the active tab is one whose button is enabled: on Data, Rules,
   Validate or Export at least one record is stored, and on Export the errors
   list has no entry of type 'error'. *)
C25_ActiveTabEnabled == ~ TabDisabled(activeTab)

(* C26: every file upload and every sample-data load that starts eventually
   resets isProcessing to false, whether parsing succeeds, parsing or reading
   the file fails, or the format is unsupported. *)
C26_ProcessingEventuallyReset == isProcessing ~> ~ isProcessing

(* C27: isProcessing is true whenever the parsing or the delayed validation
   of some upload is pending, also when two uploads overlap and the first
   finishes before the second. *)
C27_ProcessingWhilePending ==
    (\/ \E k \in 1..Len(inflight) : inflight[k].op = "parse"
     \/ \E k \in 1..Len(timers) : timers[k].upload) => isProcessing

(* C28: the rules of the list have pairwise distinct ids, so that the delete
   button of a rule removes that rule and leaves every other rule in the
   list. *)
C28_RuleIdsDistinct ==
    [][/\ \A i, j \in 1..Len(rules) : i # j => rules[i].id # rules[j].id
       /\ last' = "deleteRule" => Len(rules') = Len(rules) - 1]_vars

(* the IDs the raw rows carry are pairwise distinct *)
RawIdsDistinct(rows, key) ==
    \A i, j \in 1..Len(rows) :
       (i # j /\ ~ Absent(rows[i][key]) /\ ~ Absent(rows[j][key]))
          => JsString(rows[i][key]) # JsString(rows[j][key])

IdsDistinct(seq, key) == \A i, j \in 1..Len(seq) : i # j => seq[i][key] # seq[j][key]

(* C29: if the IDs present in the raw rows of a file are pairwise distinct, so
   are the IDs of the records normalizeData returns, the generated IDs of the
   rows lacking one included. *)
C29_NormalizeKeepsIdsDistinct ==
    last = "normalizeData" =>
       /\ RawIdsDistinct(args.clients, "ClientID") => IdsDistinct(ret.clients, "ClientID")
       /\ RawIdsDistinct(args.workers, "WorkerID") => IdsDistinct(ret.workers, "WorkerID")
       /\ RawIdsDistinct(args.tasks, "TaskID") => IdsDistinct(ret.tasks, "TaskID")

(* C30: the entries of the list validateData returns have pairwise distinct
   ids, also when an ID occurs three times or when two records sharing an ID
   both fail a range check. *)
C30_ErrorIdsDistinct == Validated => IdsDistinct(ret, "id")

====
